---- MODULE Spec2Model ----
(***************************************************************************)
(* Model of finEdSkywalker's ticker->CIK resolver (EDGARClient), of the     *)
(* multi-source aggregator (StockService.GetCompanyData), of the stock      *)
(* handlers that drive them, and of the scorecard and DCF calculators.      *)
(*                                                                          *)
(* Time is counted in hours.  A CIK string is the sequence of its ten       *)
(* decimal digits.  A Go map is a TLA+ function whose DOMAIN is its key     *)
(* set; a nil map is the record [isNil |-> TRUE, m |-> <<>>].               *)
(***************************************************************************)
EXTENDS Integers, Sequences, FiniteSets, TLC

VARIABLES
    useMock,        \* config.IsMockMode(), fixed for the process
    now,            \* wall clock, hours
    edgar,          \* the EDGARClient of the long-lived StockService
    rejected,       \* tickers answered CIK_NOT_FOUND since the catalog held by edgar was loaded
    handlerLog,     \* the last two handler invocations: time and bulk fetches issued
    last,           \* what the most recent operation was given and what it returned
    calc,           \* the input of the calculator under study and, once called, its output
    answered,       \* per ticker, the CIK of the first successful getCIK on edgar
    conc            \* the goroutines running getCIK concurrently on edgar

vars == <<useMock, now, edgar, rejected, handlerLog, last, calc, answered, conc>>

(***************************************************************************)
(* Bounds                                                                   *)
(***************************************************************************)
MaxClock == 50
MaxAggClock == 13
TickSteps == {12, 13}

(***************************************************************************)
(* Constants of the program                                                 *)
(***************************************************************************)
tickerMapCacheTTL == 24

\* time.Since of the zero time.Time saturates at the largest Duration (hours)
MaxDuration == 2562047

\* the zero value of time.Time (tickerMapLoadedAt before any load)
ZeroTime == -1

commonCIKs ==
    [t \in {"AAPL", "MSFT", "GOOGL", "GOOG", "AMZN", "TSLA", "META", "NVDA",
            "JPM", "V", "BAC", "WMT", "XOM", "UNH", "JNJ"} |->
        CASE t = "AAPL"  -> <<0,0,0,0,3,2,0,1,9,3>>
          [] t = "MSFT"  -> <<0,0,0,0,7,8,9,0,1,9>>
          [] t = "GOOGL" -> <<0,0,0,1,6,5,2,0,4,4>>
          [] t = "GOOG"  -> <<0,0,0,1,6,5,2,0,4,4>>
          [] t = "AMZN"  -> <<0,0,0,1,0,1,8,7,2,4>>
          [] t = "TSLA"  -> <<0,0,0,1,3,1,8,6,0,5>>
          [] t = "META"  -> <<0,0,0,1,3,2,6,8,0,1>>
          [] t = "NVDA"  -> <<0,0,0,1,0,4,5,8,1,0>>
          [] t = "JPM"   -> <<0,0,0,0,0,1,9,6,1,7>>
          [] t = "V"     -> <<0,0,0,1,4,0,3,1,6,1>>
          [] t = "BAC"   -> <<0,0,0,0,0,7,0,8,5,8>>
          [] t = "WMT"   -> <<0,0,0,0,1,0,4,1,6,9>>
          [] t = "XOM"   -> <<0,0,0,0,0,3,4,0,8,8>>
          [] t = "UNH"   -> <<0,0,0,0,7,3,1,7,6,6>>
          [] t = "JNJ"   -> <<0,0,0,0,2,0,0,4,0,6>>]

(***************************************************************************)
(* Strings, maps, errors                                                    *)
(***************************************************************************)
\* strings.ToUpper on the tickers that occur in the model
ToUpper(s) ==
    CASE s = "aapl" -> "AAPL"
      [] s = "zzz"  -> "ZZZ"
      [] s = "new"  -> "NEW"
      [] OTHER      -> s

\* fmt.Sprintf("%010d", n)
Pad10(n) == [i \in 1..10 |-> (n \div (10 ^ (10 - i))) % 10]

EmptyMap == << >>
NilMap == [isNil |-> TRUE, m |-> EmptyMap]
MakeMap(f) == [isNil |-> FALSE, m |-> f]

\* m[k] = v
Put(m, k, v) == [x \in (DOMAIN m) \cup {k} |-> IF x = k THEN v ELSE m[x]]

NoCIK == << >>

NoError == [Kind |-> "nil", Source |-> "", Message |-> "", Code |-> "", Arg |-> ""]

\* fmt.Errorf("...: %w", err): a plain error
PlainError(msg) == [Kind |-> "error", Source |-> "", Message |-> msg, Code |-> "", Arg |-> ""]

\* &finance.DataSourceError{Source, Message, Code}; Arg is the %s of Message
DataSourceError(source, msg, code, arg) ==
    [Kind |-> "DataSourceError", Source |-> source, Message |-> msg, Code |-> code, Arg |-> arg]

(***************************************************************************)
(* What the SEC answers to the bulk ticker request                          *)
(***************************************************************************)
PayloadA == {[CIKStr |-> 1, Ticker |-> "zzz"], [CIKStr |-> 320193, Ticker |-> "AAPL"]}
PayloadB == {[CIKStr |-> 2, Ticker |-> "ZZZ"], [CIKStr |-> 3, Ticker |-> "new"],
             [CIKStr |-> 5, Ticker |-> "aapl"]}
Payloads == {PayloadA, PayloadB}

TickersResponses ==
    {[kind |-> "ok", body |-> p] : p \in Payloads}
        \cup {[kind |-> "neterr", body |-> {}]}

InputTickers == {"aapl", "zzz", "NEW"}

RECURSIVE BuildTickerMap(_, _)
BuildTickerMap(companies, result) ==
    IF companies = {} THEN result
    ELSE LET company == CHOOSE c \in companies : TRUE
             cik == Pad10(company.CIKStr)
         IN  BuildTickerMap(companies \ {company},
                            Put(result, ToUpper(company.Ticker), cik))

\* loadTickerMap: the ticker -> padded CIK map of one response, or an error
loadTickerMap(resp) ==
    CASE resp.kind = "neterr" ->
            [m |-> NilMap, err |-> PlainError("failed to fetch ticker map")]
      [] resp.kind = "status" ->
            [m |-> NilMap, err |-> PlainError("API error (status)")]
      [] OTHER ->
            [m |-> MakeMap(BuildTickerMap(resp.body, EmptyMap)), err |-> NoError]

(***************************************************************************)
(* EDGARClient                                                              *)
(***************************************************************************)
NewEDGARClient(mock) ==
    [useMock           |-> mock,
     cikCache          |-> EmptyMap,
     tickerMapCache    |-> NilMap,
     tickerMapLoadedAt |-> ZeroTime]

\* time.Since(t) at clock reading clock
Since(t, clock) == IF t = ZeroTime THEN MaxDuration ELSE clock - t

\* needsRefresh with the TTL comparison off by one
needsRefresh_AtTTL(c, clock) ==
    c.tickerMapCache.isNil \/ Since(c.tickerMapLoadedAt, clock) >= tickerMapCacheTTL

needsRefresh(c, clock) ==
    c.tickerMapCache.isNil \/ Since(c.tickerMapLoadedAt, clock) > tickerMapCacheTTL

\* storeTickerMap storing the result of loadTickerMap before looking at its
\* error, so that a failed refresh overwrites the catalog with nil
storeTickerMap_DropStale(c, clock, loaded) ==
    IF loaded.err # NoError
    THEN [c |-> [c EXCEPT !.tickerMapCache = loaded.m],
          err |-> loaded.err, checks |-> 1, fetches |-> 1]
    ELSE [c |-> [c EXCEPT !.tickerMapCache = loaded.m,
                          !.tickerMapLoadedAt = clock],
          err |-> NoError, checks |-> 1, fetches |-> 1]

\* storeTickerMap stamping the load time when a refresh failed over a held
\* catalog, so that the stale catalog counts as fresh
storeTickerMap_StampOnFailure(c, clock, loaded) ==
    IF loaded.err # NoError
    THEN IF ~c.tickerMapCache.isNil
         THEN [c |-> [c EXCEPT !.tickerMapLoadedAt = clock],
               err |-> NoError, checks |-> 1, fetches |-> 1]
         ELSE [c |-> c, err |-> loaded.err, checks |-> 1, fetches |-> 1]
    ELSE [c |-> [c EXCEPT !.tickerMapCache = loaded.m,
                          !.tickerMapLoadedAt = clock],
          err |-> NoError, checks |-> 1, fetches |-> 1]

\* the second half of ensureTickerMapFresh: what it does with the result
\* loaded of loadTickerMap
storeTickerMap(c, clock, loaded) ==
    IF loaded.err # NoError
    THEN IF ~c.tickerMapCache.isNil
         THEN [c |-> c, err |-> NoError, checks |-> 1, fetches |-> 1]
         ELSE [c |-> c, err |-> loaded.err, checks |-> 1, fetches |-> 1]
    ELSE [c |-> [c EXCEPT !.tickerMapCache = loaded.m,
                          !.tickerMapLoadedAt = clock],
          err |-> NoError, checks |-> 1, fetches |-> 1]

\* ensureTickerMapFresh: the client afterwards, the error returned, and the
\* freshness checks made (one per call) and bulk fetches issued
ensureTickerMapFresh(c, clock, resp) ==
    IF ~needsRefresh(c, clock)
    THEN [c |-> c, err |-> NoError, checks |-> 1, fetches |-> 0]
    ELSE storeTickerMap(c, clock, loadTickerMap(resp))

\* lookupCIKFromSEC without the ok test: a missing ticker yields the zero string
lookupCIKFromSEC_IgnoreMiss(c, ticker) ==
    IF ticker \notin DOMAIN c.tickerMapCache.m
    THEN [cik |-> NoCIK, err |-> NoError]
    ELSE [cik |-> c.tickerMapCache.m[ticker], err |-> NoError]

\* lookupCIKFromSEC
lookupCIKFromSEC(c, ticker) ==
    IF ticker \notin DOMAIN c.tickerMapCache.m
    THEN [cik |-> NoCIK,
          err |-> DataSourceError("EDGAR", "CIK not found for ticker %s", "CIK_NOT_FOUND", ticker)]
    ELSE [cik |-> c.tickerMapCache.m[ticker], err |-> NoError]

\* the result of getCIK: the client afterwards, the CIK and error returned,
\* and the freshness checks and bulk fetches of the call
CIKResult(c, cik, err, fresh) ==
    [c |-> c, cik |-> cik, err |-> err,
     checks |-> fresh.checks, fetches |-> fresh.fetches, freshErr |-> fresh.err]

\* steps 2 to 4 of getCIK caching the result of the lookup before looking at
\* its error, so that a failed lookup is remembered
getCIKLookups_RememberMiss(ticker, fresh, found) ==
    IF ticker \in DOMAIN fresh.c.cikCache
    THEN CIKResult(fresh.c, fresh.c.cikCache[ticker], NoError, fresh)
    ELSE IF ticker \in DOMAIN commonCIKs
    THEN CIKResult([fresh.c EXCEPT !.cikCache = Put(@, ticker, commonCIKs[ticker])],
                   commonCIKs[ticker], NoError, fresh)
    ELSE IF found.err # NoError
    THEN CIKResult([fresh.c EXCEPT !.cikCache = Put(@, ticker, found.cik)],
                   NoCIK, found.err, fresh)
    ELSE CIKResult([fresh.c EXCEPT !.cikCache = Put(@, ticker, found.cik)],
                   found.cik, NoError, fresh)

\* steps 2 to 4 of getCIK consulting the catalog before the static table
getCIKLookups_CatalogFirst(ticker, fresh, found) ==
    IF ticker \in DOMAIN fresh.c.cikCache
    THEN CIKResult(fresh.c, fresh.c.cikCache[ticker], NoError, fresh)
    ELSE IF found.err = NoError
    THEN CIKResult([fresh.c EXCEPT !.cikCache = Put(@, ticker, found.cik)],
                   found.cik, NoError, fresh)
    ELSE IF ticker \in DOMAIN commonCIKs
    THEN CIKResult([fresh.c EXCEPT !.cikCache = Put(@, ticker, commonCIKs[ticker])],
                   commonCIKs[ticker], NoError, fresh)
    ELSE CIKResult(fresh.c, NoCIK, found.err, fresh)

\* steps 2 to 4 of getCIK passing over the memo cache when step 1 has just
\* loaded a catalog
getCIKLookups_RefreshEvicts(ticker, fresh, found) ==
    IF ticker \in DOMAIN fresh.c.cikCache /\ ~(fresh.fetches > 0 /\ fresh.err = NoError)
    THEN CIKResult(fresh.c, fresh.c.cikCache[ticker], NoError, fresh)
    ELSE IF ticker \in DOMAIN commonCIKs
    THEN CIKResult([fresh.c EXCEPT !.cikCache = Put(@, ticker, commonCIKs[ticker])],
                   commonCIKs[ticker], NoError, fresh)
    ELSE IF found.err # NoError
    THEN CIKResult(fresh.c, NoCIK, found.err, fresh)
    ELSE CIKResult([fresh.c EXCEPT !.cikCache = Put(@, ticker, found.cik)],
                   found.cik, NoError, fresh)

\* steps 2 to 4 of getCIK (memo cache, static table, catalog), given the
\* outcome fresh of step 1 and the outcome found of lookupCIKFromSEC
getCIKLookups(ticker, fresh, found) ==
    IF ticker \in DOMAIN fresh.c.cikCache
    THEN CIKResult(fresh.c, fresh.c.cikCache[ticker], NoError, fresh)
    ELSE IF ticker \in DOMAIN commonCIKs
    THEN CIKResult([fresh.c EXCEPT !.cikCache = Put(@, ticker, commonCIKs[ticker])],
                   commonCIKs[ticker], NoError, fresh)
    ELSE IF found.err # NoError
    THEN CIKResult(fresh.c, NoCIK, found.err, fresh)
    ELSE CIKResult([fresh.c EXCEPT !.cikCache = Put(@, ticker, found.cik)],
                   found.cik, NoError, fresh)

\* getCIK after step 1 returning the error of ensureTickerMapFresh instead
\* of ignoring it
getCIKAfterFresh_FailFast(ticker, fresh) ==
    IF fresh.err # NoError
    THEN CIKResult(fresh.c, NoCIK, fresh.err, fresh)
    ELSE getCIKLookups(ticker, fresh, lookupCIKFromSEC(fresh.c, ticker))

\* getCIK after step 1: the error of ensureTickerMapFresh is dropped
getCIKAfterFresh(ticker, fresh) ==
    getCIKLookups(ticker, fresh, lookupCIKFromSEC(fresh.c, ticker))

\* getCIK
getCIK(c0, rawTicker, clock, resp) ==
    getCIKAfterFresh(ToUpper(rawTicker), ensureTickerMapFresh(c0, clock, resp))

(***************************************************************************)
(* Financial statements                                                     *)
(***************************************************************************)
\* statement amounts are in millions of dollars
NoStatement ==
    [present |-> FALSE, Revenue |-> 0, NetIncome |-> 0, FreeCashFlow |-> 0,
     TotalDebt |-> 0, ShareholdersEquity |-> 0]

\* getMockFinancials
MockFinancials ==
    [present |-> TRUE, Revenue |-> 394328, NetIncome |-> 96995, FreeCashFlow |-> 99584,
     TotalDebt |-> 109280, ShareholdersEquity |-> 62318]

\* what data.sec.gov answers to the company-facts request
FactsResponses ==
    {[kind |-> "ok",
      statement |-> [present |-> TRUE, Revenue |-> 1000, NetIncome |-> 100, FreeCashFlow |-> 50,
                     TotalDebt |-> 400, ShareholdersEquity |-> 1000]],
     [kind |-> "status", statement |-> NoStatement]}

\* GetCompanyFacts after its getCIK call returned r
fetchCompanyFacts(r, factsResp) ==
    [c |-> r.c, resolved |-> TRUE, cik |-> r.cik, cikErr |-> r.err,
     checks |-> r.checks, fetches |-> r.fetches, freshErr |-> r.freshErr,
     statement |-> IF r.err = NoError /\ factsResp.kind = "ok"
                   THEN factsResp.statement ELSE NoStatement,
     err |-> IF r.err # NoError THEN r.err
             ELSE IF factsResp.kind # "ok"
             THEN DataSourceError("EDGAR", "API error (status %d): %s", "503", "")
             ELSE NoError]

\* GetCompanyFacts: the client afterwards, the statement and error returned,
\* and the outcome of the getCIK call it made (none in mock mode)
GetCompanyFacts(c0, rawTicker, clock, tickersResp, factsResp) ==
    IF c0.useMock
    THEN [c |-> c0, statement |-> MockFinancials, err |-> NoError,
          resolved |-> FALSE, cik |-> NoCIK, cikErr |-> NoError,
          checks |-> 0, fetches |-> 0, freshErr |-> NoError]
    ELSE fetchCompanyFacts(getCIK(c0, rawTicker, clock, tickersResp), factsResp)

(***************************************************************************)
(* Finnhub and OpenFIGI clients.  Prices are in cents, market caps and      *)
(* share counts in the unit the provider reports them in.                   *)
(***************************************************************************)
\* a dollar amount m * 1,000,000 + r, kept in two parts so that amounts beyond
\* 2^31 can be written
Dollars(m, r) == [M |-> m, r |-> r]

\* x * 1_000_000 for a whole x
TimesMillion(x) == Dollars(x, 0)

NoQuote ==
    [present |-> FALSE, Ticker |-> "", CompanyName |-> "", CurrentPrice |-> 0,
     MarketCap |-> Dollars(0, 0)]

\* what finnhub.io answers to the quote request (C is the current price)
QuoteResponses == {[kind |-> "ok", C |-> 10000], [kind |-> "ok", C |-> 0]}

getMockQuote(ticker) ==
    [present |-> TRUE, Ticker |-> ticker, CompanyName |-> "Mock Company Inc.",
     CurrentPrice |-> 17543, MarketCap |-> Dollars(2800000, 0)]

\* FinnhubClient.GetQuote
GetQuote(mock, ticker, resp) ==
    IF mock THEN [quote |-> getMockQuote(ticker), err |-> NoError]
    ELSE IF resp.kind # "ok"
    THEN [quote |-> NoQuote,
          err |-> DataSourceError("Finnhub", "API error (status %d): %s", "503", "")]
    ELSE IF resp.C = 0
    THEN [quote |-> NoQuote,
          err |-> DataSourceError("Finnhub", "invalid ticker or no data available for %s",
                                  "NO_DATA", ticker)]
    ELSE [quote |-> [present |-> TRUE, Ticker |-> ticker, CompanyName |-> "",
                     CurrentPrice |-> resp.C, MarketCap |-> Dollars(0, 0)],
          err |-> NoError]

NoProfile == [Name |-> "", MarketCap |-> 0, SharesOut |-> 0]

\* what finnhub.io answers to the profile request (MarketCap and SharesOut in millions)
ProfileResponses ==
    {[kind |-> "ok", profile |-> [Name |-> "Zeta Corp", MarketCap |-> 5000, SharesOut |-> 100]],
     [kind |-> "ok", profile |-> NoProfile],
     [kind |-> "status", profile |-> NoProfile]}

getMockProfile(ticker) == [Name |-> "Mock Company Inc.", MarketCap |-> 2800000, SharesOut |-> 16000]

\* FinnhubClient.GetProfile
GetProfile(mock, ticker, resp) ==
    IF mock THEN [profile |-> getMockProfile(ticker), err |-> NoError]
    ELSE IF resp.kind # "ok"
    THEN [profile |-> NoProfile,
          err |-> DataSourceError("Finnhub", "API error (status %d): %s", "503", "")]
    ELSE [profile |-> resp.profile, err |-> NoError]

getMockFIGI(ticker) ==
    LET u == ToUpper(ticker) IN
    CASE u = "AAPL"  -> [figi |-> "BBG000B9XRY4", name |-> "Apple Inc.", err |-> NoError]
      [] u = "MSFT"  -> [figi |-> "BBG000BPH459", name |-> "Microsoft Corporation", err |-> NoError]
      [] u = "GOOGL" -> [figi |-> "BBG009S39JX6", name |-> "Alphabet Inc.", err |-> NoError]
      [] u = "AMZN"  -> [figi |-> "BBG000BVPV84", name |-> "Amazon.com Inc.", err |-> NoError]
      [] u = "TSLA"  -> [figi |-> "BBG000N9MNX3", name |-> "Tesla Inc.", err |-> NoError]
      [] OTHER       -> [figi |-> "", name |-> "Mock Company Inc.", err |-> NoError]

\* OpenFIGIClient.MapTicker
MapTicker(mock, ticker) ==
    IF mock THEN getMockFIGI(ticker)
    ELSE [figi |-> "", name |-> ticker, err |-> NoError]

(***************************************************************************)
(* StockService                                                             *)
(***************************************************************************)
NewStockService(mock) == [mock |-> mock, edgar |-> NewEDGARClient(mock)]

NoHistoricalData == [present |-> FALSE, PERatioAvg5Year |-> 0]

\* fmt.Sprintf("<what> unavailable: %v", err)
Warning(what, err) == [text |-> what, err |-> err]

\* the four merge steps of GetCompanyData, each on the CompanyData and
\* warnings built so far
\* MergeQuote dropping the warning of a failed quote call
MergeQuote_Silent(acc, q) ==
    IF q.err # NoError
    THEN acc
    ELSE [acc EXCEPT !.cd.Quote = q.quote]

MergeQuote(acc, q) ==
    IF q.err # NoError
    THEN [acc EXCEPT !.warnings = Append(@, Warning("Price data unavailable", q.err))]
    ELSE [acc EXCEPT !.cd.Quote = q.quote]

\* MergeProfile dropping the warning of a failed profile call
MergeProfile_Silent(acc, p) ==
    IF p.err # NoError
    THEN acc
    ELSE [acc EXCEPT !.cd.CompanyName = p.profile.Name,
                     !.cd.Quote = IF @.present
                                  THEN [@ EXCEPT !.CompanyName = p.profile.Name,
                                                 !.MarketCap = TimesMillion(p.profile.MarketCap)]
                                  ELSE @,
                     !.cd.SharesOutstanding = p.profile.SharesOut]

MergeProfile(acc, p) ==
    IF p.err # NoError
    THEN [acc EXCEPT !.warnings = Append(@, Warning("Company profile unavailable", p.err))]
    ELSE [acc EXCEPT !.cd.CompanyName = p.profile.Name,
                     !.cd.Quote = IF @.present
                                  THEN [@ EXCEPT !.CompanyName = p.profile.Name,
                                                 !.MarketCap = TimesMillion(p.profile.MarketCap)]
                                  ELSE @,
                     !.cd.SharesOutstanding = p.profile.SharesOut]

MergeFinancials(acc, f) ==
    IF f.err # NoError
    THEN [acc EXCEPT !.warnings = Append(@, Warning("Fundamental data unavailable", f.err))]
    ELSE [acc EXCEPT !.cd.LatestFinancials = f.statement]

\* MergeFIGI letting the identifier-mapping name replace the name already set
MergeFIGI_Overwrite(acc, g) ==
    IF g.err # NoError
    THEN acc
    ELSE [acc EXCEPT !.cd.FIGI = g.figi,
                     !.cd.CompanyName = g.name]

MergeFIGI(acc, g) ==
    IF g.err # NoError
    THEN acc
    ELSE [acc EXCEPT !.cd.FIGI = g.figi,
                     !.cd.CompanyName = IF @ = "" THEN g.name ELSE @]

\* the CompanyData GetCompanyData starts from
newCompanyData(ticker) ==
    [cd |-> [Ticker |-> ToUpper(ticker), CompanyName |-> "", CIK |-> "", FIGI |-> "",
             Quote |-> NoQuote, LatestFinancials |-> NoStatement,
             HistoricalData |-> NoHistoricalData, SharesOutstanding |-> 0],
     warnings |-> << >>]

\* the last step of GetCompanyData: the ticker stands in for a missing name
defaultCompanyName(ticker, acc) ==
    IF acc.cd.CompanyName = ""
    THEN [acc EXCEPT !.cd.CompanyName = ticker]
    ELSE acc

\* what GetCompanyData returns, given its merged CompanyData and warnings
dataResult(acc, q, p, f, g) ==
    [c |-> f.c, cd |-> acc.cd, warnings |-> acc.warnings,
     quoteErr |-> q.err, profileErr |-> p.err, factsErr |-> f.err, figiErr |-> g.err,
     profileName |-> p.profile.Name, figiName |-> g.name,
     facts |-> f]

\* GetCompanyData, given what the four provider calls returned
mergeCompanyData(ticker, q, p, f, g) ==
    dataResult(
        defaultCompanyName(ticker,
            MergeFIGI(MergeFinancials(MergeProfile(MergeQuote(newCompanyData(ticker), q), p), f), g)),
        q, p, f, g)

\* StockService.GetCompanyData: the EDGAR client afterwards, the CompanyData
\* and warnings returned, and what each provider call returned
GetCompanyData(c0, mock, ticker, clock, quoteResp, profileResp, tickersResp, factsResp) ==
    mergeCompanyData(ticker,
                     GetQuote(mock, ticker, quoteResp),
                     GetProfile(mock, ticker, profileResp),
                     GetCompanyFacts(c0, ticker, clock, tickersResp, factsResp),
                     MapTicker(mock, ticker))

(***************************************************************************)
(* Scorecard (calculator.CalculateScorecard).  A float64 ratio is kept as   *)
(* the exact fraction n/d with d > 0; the inputs of the model are chosen so *)
(* that the float64 products and quotients of the code are exact.  A price  *)
(* is in cents, SharesOutstanding in millions, a statement amount in        *)
(* millions of dollars, a market cap in dollars (Dollars).                  *)
(***************************************************************************)
RatingGreen == "GREEN"
RatingYellow == "YELLOW"
RatingRed == "RED"
RatingNA == "N/A"

Ratio(n, d) == [n |-> n, d |-> d]

\* the float64 zero value
Zero == Ratio(0, 1)

\* a market cap d compared with 0
DollarsPositive(d) == d.M > 0 \/ (d.M = 0 /\ d.r > 0)

\* fcf / cap * 100 > k, for fcf in millions of dollars and cap > 0 in dollars
YieldAbove(fcf, cap, k) ==
    IF 100 * fcf - k * cap.M <= 0 THEN FALSE
    ELSE IF 100 * fcf - k * cap.M > k THEN TRUE
    ELSE (100 * fcf - k * cap.M) * 1000000 > k * cap.r

\* finance.FundamentalMetric{Available: false, Rating: rating, Message: message}
Unavailable(rating, message) ==
    [Current |-> Zero, FiveYearAvg |-> 0, Rating |-> rating, Message |-> message,
     Available |-> FALSE]

\* a computed metric; the message is its format string
Computed(current, avg, rating, message) ==
    [Current |-> current, FiveYearAvg |-> avg, Rating |-> rating, Message |-> message,
     Available |-> TRUE]

\* Price / EPS, EPS = NetIncome / (SharesOutstanding * 1_000_000)
PriceEarnings(data) ==
    Ratio(data.Quote.CurrentPrice * data.SharesOutstanding,
          100 * data.LatestFinancials.NetIncome)

\* the rating of a P/E ratio pe against the 5-year average avg > 0
ratePEAgainstAverage(pe, avg) ==
    IF 10 * pe.n < 9 * avg * pe.d
    THEN Computed(pe, avg, RatingGreen,
                  "P/E (%.2f) is below 5-year average (%.2f) - potentially undervalued")
    ELSE IF 10 * pe.n > 12 * avg * pe.d
    THEN Computed(pe, avg, RatingRed,
                  "P/E (%.2f) is above 5-year average (%.2f) - potentially overvalued")
    ELSE Computed(pe, avg, RatingYellow, "P/E (%.2f) is near 5-year average (%.2f)")

\* ratePEAgainstBenchmarks with the upper benchmark included in the red band
ratePEAgainstBenchmarks_AtThirty(pe) ==
    IF pe.n < 15 * pe.d
    THEN Computed(pe, 0, RatingGreen, "P/E of %.2f suggests good value")
    ELSE IF pe.n >= 30 * pe.d
    THEN Computed(pe, 0, RatingRed, "P/E of %.2f is relatively high")
    ELSE Computed(pe, 0, RatingYellow, "P/E of %.2f is moderate")

\* the rating of a P/E ratio pe against the general benchmarks
ratePEAgainstBenchmarks(pe) ==
    IF pe.n < 15 * pe.d
    THEN Computed(pe, 0, RatingGreen, "P/E of %.2f suggests good value")
    ELSE IF pe.n > 30 * pe.d
    THEN Computed(pe, 0, RatingRed, "P/E of %.2f is relatively high")
    ELSE Computed(pe, 0, RatingYellow, "P/E of %.2f is moderate")

calculatePERatio(data) ==
    IF ~data.Quote.present \/ ~data.LatestFinancials.present
    THEN Unavailable(RatingNA, "Insufficient data to calculate P/E ratio")
    ELSE IF data.LatestFinancials.NetIncome <= 0 \/ data.SharesOutstanding <= 0
    THEN Unavailable(RatingRed, "Company has negative or zero earnings")
    ELSE IF data.HistoricalData.present /\ data.HistoricalData.PERatioAvg5Year > 0
    THEN ratePEAgainstAverage(PriceEarnings(data), data.HistoricalData.PERatioAvg5Year)
    ELSE ratePEAgainstBenchmarks(PriceEarnings(data))

\* the rating of a debt-to-equity ratio
rateDebtToEquity(de) ==
    IF 2 * de.n < de.d
    THEN Computed(de, 0, RatingGreen, "Excellent debt levels (%.2f) - very safe")
    ELSE IF de.n < de.d
    THEN Computed(de, 0, RatingYellow, "Moderate debt levels (%.2f) - acceptable")
    ELSE IF de.n < 2 * de.d
    THEN Computed(de, 0, RatingRed, "High debt levels (%.2f) - risky")
    ELSE Computed(de, 0, RatingRed, "Very high debt levels (%.2f) - concerning")

calculateDebtToEquity(data) ==
    IF ~data.LatestFinancials.present
    THEN Unavailable(RatingNA, "No financial data available")
    ELSE IF data.LatestFinancials.ShareholdersEquity <= 0
    THEN Unavailable(RatingRed, "Company has negative or zero equity")
    ELSE rateDebtToEquity(Ratio(data.LatestFinancials.TotalDebt,
                                data.LatestFinancials.ShareholdersEquity))

\* rateFCFYield with a yield of exactly 8 in the green band
rateFCFYield_AtEight(fcf, cap) ==
    IF YieldAbove(fcf, cap, 8) \/ (100 * fcf = 8 * cap.M /\ cap.r = 0)
    THEN Computed(Ratio(100 * fcf, cap), 0, RatingGreen,
                  "Excellent FCF yield (%.2f%%) - strong cash generation")
    ELSE IF YieldAbove(fcf, cap, 4)
    THEN Computed(Ratio(100 * fcf, cap), 0, RatingYellow, "Good FCF yield (%.2f%%)")
    ELSE IF YieldAbove(fcf, cap, 0)
    THEN Computed(Ratio(100 * fcf, cap), 0, RatingRed,
                  "Low FCF yield (%.2f%%) - limited cash generation")
    ELSE Computed(Ratio(100 * fcf, cap), 0, RatingRed,
                  "Negative FCF yield (%.2f%%) - burning cash")

\* the FCF yield fcf / cap * 100 and its rating
rateFCFYield(fcf, cap) ==
    IF YieldAbove(fcf, cap, 8)
    THEN Computed(Ratio(100 * fcf, cap), 0, RatingGreen,
                  "Excellent FCF yield (%.2f%%) - strong cash generation")
    ELSE IF YieldAbove(fcf, cap, 4)
    THEN Computed(Ratio(100 * fcf, cap), 0, RatingYellow, "Good FCF yield (%.2f%%)")
    ELSE IF YieldAbove(fcf, cap, 0)
    THEN Computed(Ratio(100 * fcf, cap), 0, RatingRed,
                  "Low FCF yield (%.2f%%) - limited cash generation")
    ELSE Computed(Ratio(100 * fcf, cap), 0, RatingRed,
                  "Negative FCF yield (%.2f%%) - burning cash")

\* calculateFCFYield rating a missing market cap unfavorable
calculateFCFYield_RedWithoutCap(data) ==
    IF ~data.Quote.present \/ ~data.LatestFinancials.present
    THEN Unavailable(RatingNA, "Insufficient data to calculate FCF Yield")
    ELSE IF ~DollarsPositive(data.Quote.MarketCap)
    THEN Unavailable(RatingRed, "Market cap not available")
    ELSE rateFCFYield(data.LatestFinancials.FreeCashFlow, data.Quote.MarketCap)

calculateFCFYield(data) ==
    IF ~data.Quote.present \/ ~data.LatestFinancials.present
    THEN Unavailable(RatingNA, "Insufficient data to calculate FCF Yield")
    ELSE IF ~DollarsPositive(data.Quote.MarketCap)
    THEN Unavailable(RatingNA, "Market cap not available")
    ELSE rateFCFYield(data.LatestFinancials.FreeCashFlow, data.Quote.MarketCap)

\* growthRate := 8.0
growthRate == 8

\* the rating of a PEG ratio
ratePEG(peg) ==
    IF peg.n < peg.d
    THEN Computed(peg, 0, RatingGreen,
                  "PEG of %.2f suggests undervalued relative to growth (assuming %.0f%% growth)")
    ELSE IF 2 * peg.n < 3 * peg.d
    THEN Computed(peg, 0, RatingYellow,
                  "PEG of %.2f is fairly valued (assuming %.0f%% growth)")
    ELSE Computed(peg, 0, RatingRed,
                  "PEG of %.2f suggests overvalued relative to growth (assuming %.0f%% growth)")

\* calculatePEGRatio, given the metric peMetric that calculatePERatio returned
pegOfPE(peMetric) ==
    IF ~peMetric.Available
    THEN Unavailable(RatingNA, "P/E ratio not available")
    ELSE IF growthRate <= 0
    THEN Unavailable(RatingNA, "Growth rate not available or negative")
    ELSE ratePEG(Ratio(peMetric.Current.n, growthRate * peMetric.Current.d))

calculatePEGRatio(data) == pegOfPE(calculatePERatio(data))

\* the rating of a return on equity (in percent)
rateROE(roe) ==
    IF roe.n > 20 * roe.d
    THEN Computed(roe, 0, RatingGreen, "Excellent ROE (%.2f%%) - highly efficient management")
    ELSE IF roe.n > 15 * roe.d
    THEN Computed(roe, 0, RatingYellow, "Good ROE (%.2f%%) - solid management")
    ELSE IF roe.n > 0
    THEN Computed(roe, 0, RatingRed, "Low ROE (%.2f%%) - poor capital efficiency")
    ELSE Computed(roe, 0, RatingRed, "Negative ROE (%.2f%%) - losing money")

calculateROE(data) ==
    IF ~data.LatestFinancials.present
    THEN Unavailable(RatingNA, "No financial data available")
    ELSE IF data.LatestFinancials.ShareholdersEquity <= 0
    THEN Unavailable(RatingRed, "Company has negative or zero equity")
    ELSE rateROE(Ratio(100 * data.LatestFinancials.NetIncome,
                       data.LatestFinancials.ShareholdersEquity))

\* the five metrics in the order calculateOverallScore lists them
Metrics(scorecard) ==
    <<scorecard.PERatio, scorecard.DebtToEquity, scorecard.FCFYield,
      scorecard.PEGRatio, scorecard.ROE>>

\* the number of available metrics of the list with the given rating
CountRated(metrics, rating) ==
    Cardinality({i \in 1..Len(metrics) : metrics[i].Available /\ metrics[i].Rating = rating})

\* totalMetrics
CountAvailable(metrics) ==
    Cardinality({i \in 1..Len(metrics) : metrics[i].Available})

\* fmt.Sprintf("%d/%d <text>", n, of)
ScoreText(n, of, text) == [n |-> n, of |-> of, text |-> text]

\* the summary for greenCount, redCount and totalMetrics > 0
summaryOf(greenCount, redCount, totalMetrics) ==
    IF redCount > totalMetrics \div 2
    THEN "Concerning fundamentals - Avoid or investigate further"
    ELSE IF greenCount * 100 >= 60 * totalMetrics
    THEN "Strong fundamentals - Good investment candidate"
    ELSE IF greenCount * 100 >= 40 * totalMetrics
    THEN "Mixed fundamentals - Proceed with caution"
    ELSE "Weak fundamentals - High risk"

\* calculateOverallScore classifying by the healthy (green and yellow) count
overallScore_ByHealthy(greenCount, yellowCount, redCount, totalMetrics) ==
    IF totalMetrics = 0
    THEN [OverallScore |-> ScoreText(0, 5, "metrics available"),
          Summary |-> "Insufficient data for analysis"]
    ELSE [OverallScore |-> ScoreText(greenCount + yellowCount, totalMetrics, "metrics healthy"),
          Summary |-> summaryOf(greenCount + yellowCount, redCount, totalMetrics)]

\* calculateOverallScore without its totalMetrics == 0 return
overallScore_NoZeroGuard(greenCount, yellowCount, redCount, totalMetrics) ==
    [OverallScore |-> ScoreText(greenCount + yellowCount, totalMetrics, "metrics healthy"),
     Summary |-> summaryOf(greenCount, redCount, totalMetrics)]

\* calculateOverallScore after its counting loop
overallScore(greenCount, yellowCount, redCount, totalMetrics) ==
    IF totalMetrics = 0
    THEN [OverallScore |-> ScoreText(0, 5, "metrics available"),
          Summary |-> "Insufficient data for analysis"]
    ELSE [OverallScore |-> ScoreText(greenCount + yellowCount, totalMetrics, "metrics healthy"),
          Summary |-> summaryOf(greenCount, redCount, totalMetrics)]

calculateOverallScore(scorecard) ==
    overallScore(CountRated(Metrics(scorecard), RatingGreen),
                 CountRated(Metrics(scorecard), RatingYellow),
                 CountRated(Metrics(scorecard), RatingRed),
                 CountAvailable(Metrics(scorecard)))

\* the scorecard with its five metrics and its roll-up
withOverallScore(scorecard, overall) ==
    [PERatio |-> scorecard.PERatio, DebtToEquity |-> scorecard.DebtToEquity,
     FCFYield |-> scorecard.FCFYield, PEGRatio |-> scorecard.PEGRatio, ROE |-> scorecard.ROE,
     OverallScore |-> overall.OverallScore, Summary |-> overall.Summary]

\* the five metrics of CalculateScorecard
fiveMetrics(companyData) ==
    [PERatio |-> calculatePERatio(companyData),
     DebtToEquity |-> calculateDebtToEquity(companyData),
     FCFYield |-> calculateFCFYield(companyData),
     PEGRatio |-> calculatePEGRatio(companyData),
     ROE |-> calculateROE(companyData)]

\* the roll-up of the five metrics
rolledUp(scorecard) == withOverallScore(scorecard, calculateOverallScore(scorecard))

CalculateScorecard(companyData) == rolledUp(fiveMetrics(companyData))

(***************************************************************************)
(* DCF valuation (calculator.CalculateDCF).  A rate is the exact fraction   *)
(* n/d with d > 0.  A float64 amount computed by the projection is kept as  *)
(* its class: "NaN", "-Inf", "neg", "zero", "pos", "+Inf", or "real" for a  *)
(* finite sum of amounts of opposite sign, whose sign depends on their      *)
(* magnitudes, and "any" for what arithmetic on such a sum may give.        *)
(***************************************************************************)
\* a rate written in the query string or in the code as bp / 10000
Rate(bp) == Ratio(bp, 10000)

RateEq(a, b) == a.n * b.d = b.n * a.d

\* the class of a whole number
SignOf(x) == IF x < 0 THEN "neg" ELSE IF x = 0 THEN "zero" ELSE "pos"

Signed(c) == c \in {"-Inf", "neg", "zero", "pos", "+Inf"}
Finite(c) == c \in {"neg", "zero", "pos"}
Sgn(c) == IF c \in {"-Inf", "neg"} THEN -1 ELSE IF c = "zero" THEN 0 ELSE 1

\* the class with sign s # 0, infinite or not
Class(s, infinite) ==
    IF infinite THEN (IF s < 0 THEN "-Inf" ELSE "+Inf")
    ELSE (IF s < 0 THEN "neg" ELSE "pos")

\* float64 a * b
Mul(a, b) ==
    IF a = "NaN" \/ b = "NaN" THEN "NaN"
    ELSE IF Signed(a) /\ Signed(b)
    THEN IF Sgn(a) * Sgn(b) = 0
         THEN (IF Finite(a) /\ Finite(b) THEN "zero" ELSE "NaN")
         ELSE Class(Sgn(a) * Sgn(b), ~Finite(a) \/ ~Finite(b))
    ELSE IF (a = "real" /\ b \in {"neg", "pos"}) \/ (b = "real" /\ a \in {"neg", "pos"})
    THEN "real"
    ELSE IF (a = "real" /\ b = "zero") \/ (b = "real" /\ a = "zero")
    THEN "zero"
    ELSE "any"

\* float64 a / b
Div(a, b) ==
    IF a = "NaN" \/ b = "NaN" THEN "NaN"
    ELSE IF Signed(a) /\ Signed(b)
    THEN IF b = "zero"
         THEN (IF a = "zero" THEN "NaN" ELSE Class(Sgn(a), TRUE))
         ELSE IF ~Finite(b)
         THEN (IF ~Finite(a) THEN "NaN" ELSE "zero")
         ELSE IF a = "zero" THEN "zero"
         ELSE Class(Sgn(a) * Sgn(b), ~Finite(a))
    ELSE IF a = "real" /\ b \in {"neg", "pos"}
    THEN "real"
    ELSE "any"

\* float64 a + b
Add(a, b) ==
    IF a = "NaN" \/ b = "NaN" THEN "NaN"
    ELSE IF Signed(a) /\ Signed(b)
    THEN IF Finite(a) /\ Finite(b)
         THEN (IF a = "zero" THEN b
               ELSE IF b = "zero" \/ a = b THEN a
               ELSE "real")
         ELSE IF Finite(a) THEN b
         ELSE IF Finite(b) \/ a = b THEN a
         ELSE "NaN"
    ELSE IF a = "any" \/ b = "any" THEN "any"
    ELSE IF a = "real" /\ (b = "real" \/ Finite(b)) THEN "real"
    ELSE IF b = "real" /\ Finite(a) THEN "real"
    ELSE IF a = "real" THEN b
    ELSE a

\* math.Pow(1 + rate, year) for a year >= 1
PowOnePlus(rate, year) ==
    IF rate.d + rate.n > 0 THEN "pos"
    ELSE IF rate.d + rate.n = 0 THEN "zero"
    ELSE IF year % 2 = 0 THEN "pos" ELSE "neg"

\* one parameter of the query string: absent, not a number, or bp / 10000
Absent == [kind |-> "absent", bp |-> 0]
NotANumber == [kind |-> "text", bp |-> 0]
Number(bp) == [kind |-> "number", bp |-> bp]

\* a *float64 field of DCFInput
Nil == [set |-> FALSE, v |-> Zero]
Pointer(v) == [set |-> TRUE, v |-> v]

\* params[key] followed by strconv.ParseFloat
parseParam(p) == IF p.kind = "number" THEN Pointer(Rate(p.bp)) ELSE Nil

parseDCFInput(params) ==
    [RevenueGrowthRate  |-> parseParam(params.revenue_growth),
     ProfitMargin       |-> parseParam(params.profit_margin),
     FCFMargin          |-> parseParam(params.fcf_margin),
     DiscountRate       |-> parseParam(params.discount_rate),
     TerminalGrowthRate |-> parseParam(params.terminal_growth)]

\* assumptions.ProjectionYears
ProjectionYears == 5

\* buildAssumptions, first half: the fields the user supplied
userAssumptions(input) ==
    [RevenueGrowthRate  |-> IF input.RevenueGrowthRate.set THEN input.RevenueGrowthRate.v ELSE Zero,
     ProfitMargin       |-> IF input.ProfitMargin.set THEN input.ProfitMargin.v ELSE Zero,
     FCFMargin          |-> IF input.FCFMargin.set THEN input.FCFMargin.v ELSE Zero,
     DiscountRate       |-> IF input.DiscountRate.set THEN input.DiscountRate.v ELSE Zero,
     TerminalGrowthRate |-> IF input.TerminalGrowthRate.set THEN input.TerminalGrowthRate.v ELSE Zero,
     ProjectionYears    |-> ProjectionYears,
     Source             |-> IF input.RevenueGrowthRate.set THEN "user_input" ELSE "defaults"]

\* the historical profit margin, or 15%
defaultProfitMargin(data) ==
    IF data.LatestFinancials.present /\ data.LatestFinancials.Revenue > 0
    THEN IF data.LatestFinancials.NetIncome > 0
            /\ data.LatestFinancials.NetIncome < data.LatestFinancials.Revenue
         THEN Ratio(data.LatestFinancials.NetIncome, data.LatestFinancials.Revenue)
         ELSE Rate(1500)
    ELSE Rate(1500)

\* the historical FCF margin, or 12%
defaultFCFMargin(data) ==
    IF data.LatestFinancials.present /\ data.LatestFinancials.Revenue > 0
       /\ data.LatestFinancials.FreeCashFlow > 0
    THEN IF data.LatestFinancials.FreeCashFlow > 0
            /\ data.LatestFinancials.FreeCashFlow < data.LatestFinancials.Revenue
         THEN Ratio(data.LatestFinancials.FreeCashFlow, data.LatestFinancials.Revenue)
         ELSE Rate(1200)
    ELSE Rate(1200)

\* buildAssumptions, second half: the defaults for the fields that are 0
applyDefaults(data, a) ==
    [RevenueGrowthRate  |-> IF a.RevenueGrowthRate.n = 0 THEN Rate(800) ELSE a.RevenueGrowthRate,
     ProfitMargin       |-> IF a.ProfitMargin.n = 0 THEN defaultProfitMargin(data) ELSE a.ProfitMargin,
     FCFMargin          |-> IF a.FCFMargin.n = 0 THEN defaultFCFMargin(data) ELSE a.FCFMargin,
     DiscountRate       |-> IF a.DiscountRate.n = 0 THEN Rate(1000) ELSE a.DiscountRate,
     TerminalGrowthRate |-> IF a.TerminalGrowthRate.n = 0 THEN Rate(250) ELSE a.TerminalGrowthRate,
     ProjectionYears    |-> a.ProjectionYears,
     Source             |-> a.Source]

buildAssumptions(data, input) == applyDefaults(data, userAssumptions(input))

\* the projection of one year, given its projected revenue and discount factor
projection(year, projectedRevenue, discountFactor, assumptions) ==
    [Year           |-> year,
     Revenue        |-> projectedRevenue,
     NetIncome      |-> Mul(projectedRevenue, SignOf(assumptions.ProfitMargin.n)),
     FreeCashFlow   |-> Mul(projectedRevenue, SignOf(assumptions.FCFMargin.n)),
     DiscountFactor |-> discountFactor,
     PresentValue   |-> Div(Mul(projectedRevenue, SignOf(assumptions.FCFMargin.n)),
                            discountFactor)]

projectCashFlows(financials, assumptions) ==
    [i \in 1..assumptions.ProjectionYears |->
        projection(i,
                   Mul(SignOf(financials.Revenue),
                       PowOnePlus(assumptions.RevenueGrowthRate, i)),
                   PowOnePlus(assumptions.DiscountRate, i),
                   assumptions)]

\* the class of DiscountRate - TerminalGrowthRate
discountSpread(assumptions) ==
    SignOf(assumptions.DiscountRate.n * assumptions.TerminalGrowthRate.d
             - assumptions.TerminalGrowthRate.n * assumptions.DiscountRate.d)

calculateTerminalValue(projections, assumptions) ==
    IF Len(projections) = 0 THEN "zero"
    ELSE Div(Mul(projections[Len(projections)].FreeCashFlow,
                 PowOnePlus(assumptions.TerminalGrowthRate, 1)),
             discountSpread(assumptions))

\* pvOfCashFlows: the sum of the present values of the first k projections
RECURSIVE SumPresentValues(_, _)
SumPresentValues(projections, k) ==
    IF k = 0 THEN "zero"
    ELSE Add(SumPresentValues(projections, k - 1), projections[k].PresentValue)

\* currentPrice
currentPriceOf(companyData) ==
    IF companyData.Quote.present THEN companyData.Quote.CurrentPrice ELSE 0

\* upsidePercent for a fair value and a current price
upsidePercentOf(fairValuePerShare, currentPrice) ==
    IF currentPrice > 0
    THEN Mul(Div(Add(fairValuePerShare, "neg"), "pos"), "pos")
    ELSE "zero"

NoValuation ==
    [present |-> FALSE, FairValuePerShare |-> "zero", CurrentPrice |-> 0,
     UpsidePercent |-> "zero", Model |-> "", Assumptions |-> << >>, Projections |-> << >>,
     TerminalValue |-> "zero", EnterpriseValue |-> "zero", SharesOutstanding |-> 0]

\* the ValuationResult, given enterprise value and fair value per share
valuationResult(companyData, assumptions, projections, terminalValue, enterpriseValue, fairValuePerShare) ==
    [present |-> TRUE,
     FairValuePerShare |-> fairValuePerShare,
     CurrentPrice |-> currentPriceOf(companyData),
     UpsidePercent |-> upsidePercentOf(fairValuePerShare, currentPriceOf(companyData)),
     Model |-> "DCF",
     Assumptions |-> assumptions,
     Projections |-> projections,
     TerminalValue |-> terminalValue,
     EnterpriseValue |-> enterpriseValue,
     SharesOutstanding |-> companyData.SharesOutstanding]

\* CalculateDCF from the enterprise value on
valueShares(companyData, assumptions, projections, terminalValue, enterpriseValue) ==
    valuationResult(companyData, assumptions, projections, terminalValue, enterpriseValue,
                    Div(enterpriseValue, SignOf(companyData.SharesOutstanding)))

\* CalculateDCF from the terminal value on
discountCashFlows(companyData, assumptions, projections, terminalValue) ==
    valueShares(companyData, assumptions, projections, terminalValue,
                Add(SumPresentValues(projections, Len(projections)),
                    Div(terminalValue,
                        PowOnePlus(assumptions.DiscountRate, assumptions.ProjectionYears))))

\* CalculateDCF from the projections on
valueProjections(companyData, assumptions, projections) ==
    discountCashFlows(companyData, assumptions, projections,
                      calculateTerminalValue(projections, assumptions))

\* CalculateDCF from the assumptions on
valueAssumptions(companyData, assumptions) ==
    valueProjections(companyData, assumptions,
                     projectCashFlows(companyData.LatestFinancials, assumptions))

\* CalculateDCF without the test of the shares outstanding
CalculateDCF_NoSharesTest(companyData, input) ==
    IF ~companyData.LatestFinancials.present
    THEN [result |-> NoValuation,
          err |-> PlainError("no financial data available for DCF calculation")]
    ELSE [result |-> valueAssumptions(companyData, buildAssumptions(companyData, input)),
          err |-> NoError]

CalculateDCF(companyData, input) ==
    IF ~companyData.LatestFinancials.present
    THEN [result |-> NoValuation,
          err |-> PlainError("no financial data available for DCF calculation")]
    ELSE IF companyData.SharesOutstanding <= 0
    THEN [result |-> NoValuation, err |-> PlainError("shares outstanding not available")]
    ELSE [result |-> valueAssumptions(companyData, buildAssumptions(companyData, input)),
          err |-> NoError]

(***************************************************************************)
(* The record of the most recent operation                                  *)
(***************************************************************************)
NoCompanyData ==
    [Ticker |-> "", CompanyName |-> "", CIK |-> "", FIGI |-> "",
     Quote |-> NoQuote, LatestFinancials |-> NoStatement,
     HistoricalData |-> NoHistoricalData, SharesOutstanding |-> 0]

\* no calculator is under study
NoCalc == [op |-> "none"]

\* no goroutine is running getCIK
NoGoroutines == [op |-> "none"]

Idle ==
    [op |-> "idle", ticker |-> "", at |-> 0,
     pre |-> NewEDGARClient(FALSE), preRejected |-> {}, tickersKind |-> "",
     preAnswered |-> EmptyMap, tickersBody |-> {},
     resolved |-> FALSE, cik |-> NoCIK, err |-> NoError,
     checks |-> 0, fetches |-> 0, freshErr |-> NoError,
     aggregated |-> FALSE, cd |-> NoCompanyData, warnings |-> << >>,
     quoteErr |-> NoError, profileErr |-> NoError, factsErr |-> NoError, figiErr |-> NoError,
     profileName |-> "", figiName |-> "",
     status |-> 0]

\* the fields of the record that describe a GetCompanyFacts call r
FactsFields(r) ==
    [resolved |-> r.resolved, cik |-> r.cik, err |-> r.cikErr,
     checks |-> r.checks, fetches |-> r.fetches, freshErr |-> r.freshErr]

\* the fields of the record that describe a GetCompanyData call a
DataFields(a) ==
    [aggregated |-> TRUE, cd |-> a.cd, warnings |-> a.warnings,
     quoteErr |-> a.quoteErr, profileErr |-> a.profileErr,
     factsErr |-> a.factsErr, figiErr |-> a.figiErr,
     profileName |-> a.profileName, figiName |-> a.figiName]

\* the tickers rejected since the catalog now held was loaded
RejectedAfter(r, rawTicker, swapped) ==
    LET base == IF swapped THEN {} ELSE rejected IN
    IF r.resolved /\ r.cikErr.Code = "CIK_NOT_FOUND"
    THEN base \cup {ToUpper(rawTicker)}
    ELSE base

\* per ticker, the CIK of the first successful getCIK, after a call that
\* returned r
AnsweredAfter(r, rawTicker) ==
    IF r.resolved /\ r.cikErr = NoError /\ ToUpper(rawTicker) \notin DOMAIN answered
    THEN Put(answered, ToUpper(rawTicker), r.cik)
    ELSE answered

\* the body of the bulk response the call read, if it issued a bulk fetch
BodyRead(r, tickersResp) == IF r.fetches > 0 THEN tickersResp.body ELSE {}

\* a bulk fetch was issued and its catalog was swapped in
Swapped(c0, r, tickersResp) == r.resolved /\ r.fetches > 0 /\ tickersResp.kind = "ok"

(***************************************************************************)
(* Actions                                                                  *)
(***************************************************************************)
Init ==
    /\ useMock \in BOOLEAN
    /\ now = 0
    /\ edgar = NewEDGARClient(useMock)
    /\ rejected = {}
    /\ handlerLog = << >>
    /\ last = Idle
    /\ calc = NoCalc
    /\ answered = EmptyMap
    /\ conc = NoGoroutines

Tick(bound) ==
    \E d \in TickSteps :
        /\ now + d <= bound
        /\ now' = now + d
        /\ last' = Idle
        /\ UNCHANGED <<useMock, edgar, rejected, handlerLog, calc, answered, conc>>

\* the effect of a GetCompanyFacts call that returned r
FactsCalled(t, tr, r) ==
    /\ edgar' = r.c
    /\ rejected' = RejectedAfter(r, t, Swapped(edgar, r, tr))
    /\ answered' = AnsweredAfter(r, t)
    /\ last' = FactsFields(r) @@
               [op |-> "GetCompanyFacts", ticker |-> t, at |-> now,
                pre |-> edgar, preRejected |-> rejected, tickersKind |-> tr.kind,
                preAnswered |-> answered, tickersBody |-> BodyRead(r, tr)] @@ Idle
    /\ UNCHANGED <<useMock, now, handlerLog, calc, conc>>

\* the effect of a GetCompanyData call that returned a
DataCalled(t, tr, a) ==
    /\ edgar' = a.c
    /\ rejected' = RejectedAfter(a.facts, t, Swapped(edgar, a.facts, tr))
    /\ answered' = AnsweredAfter(a.facts, t)
    /\ last' = FactsFields(a.facts) @@ DataFields(a) @@
               [op |-> "GetCompanyData", ticker |-> t, at |-> now,
                pre |-> edgar, preRejected |-> rejected, tickersKind |-> tr.kind,
                preAnswered |-> answered,
                tickersBody |-> BodyRead(a.facts, tr)] @@ Idle
    /\ UNCHANGED <<useMock, now, handlerLog, calc, conc>>

\* one call of EDGARClient.GetCompanyFacts on the long-lived client
CallGetCompanyFacts ==
    \E t \in InputTickers, tr \in TickersResponses, fr \in FactsResponses :
        FactsCalled(t, tr, GetCompanyFacts(edgar, t, now, tr, fr))

\* one call of StockService.GetCompanyData on the long-lived service
CallGetCompanyData ==
    \E t \in InputTickers, qr \in QuoteResponses, pr \in ProfileResponses,
       tr \in TickersResponses, fr \in FactsResponses :
        DataCalled(t, tr, GetCompanyData(edgar, useMock, t, now, qr, pr, tr, fr))

\* the request paths: /api/stocks/<ticker>/fundamentals, split at "/"
RequestPaths == {<<"", "api", "stocks", t, "fundamentals">> : t \in InputTickers}
                    \cup {<<"", "api", "stocks">>}

\* the two most recent handler invocations that aggregated
Logged(entry) ==
    IF Len(handlerLog) < 2 THEN Append(handlerLog, entry)
    ELSE <<handlerLog[2], entry>>

\* the float64 fields of a ValuationResult
ValuationFloats(valuation) ==
    {valuation.FairValuePerShare, valuation.UpsidePercent,
     valuation.TerminalValue, valuation.EnterpriseValue}
        \cup UNION {{valuation.Projections[i].Revenue, valuation.Projections[i].NetIncome,
                     valuation.Projections[i].FreeCashFlow,
                     valuation.Projections[i].DiscountFactor,
                     valuation.Projections[i].PresentValue} :
                        i \in DOMAIN valuation.Projections}

\* json.Marshal of a response that carries valuation: it fails on a float64
\* that is NaN or infinite; the scorecard's ratios are finite
MarshalOutcomes(valuation) ==
    IF ValuationFloats(valuation) \cap {"NaN", "-Inf", "+Inf"} # {} THEN {"error"}
    ELSE IF "any" \in ValuationFloats(valuation) THEN {"ok", "error"}
    ELSE {"ok"}

\* jsonResponse: the status code of the answer, given how json.Marshal ended
jsonResponse(statusCode, marshalled) == IF marshalled = "error" THEN 500 ELSE statusCode

\* what a handler computed for its response: the scorecard and the valuation,
\* if it called for them, and the warnings of the response
Computation(op, cd, scorecard, input, dcf, warnings) ==
    [op |-> op, cd |-> cd, scorecard |-> scorecard, input |-> input,
     result |-> dcf.result, err |-> dcf.err, warnings |-> warnings]

\* no scorecard calculated, no valuation calculated
NoScorecard == << >>
NoDCF == [result |-> NoValuation, err |-> NoError]

\* errorResponse(400, "Invalid request", "Ticker symbol is required")
InvalidRequest(op) ==
    /\ last' = [Idle EXCEPT !.op = op, !.at = now, !.status = 400]
    /\ calc' = NoCalc
    /\ UNCHANGED <<useMock, now, edgar, rejected, handlerLog, answered, conc>>

\* the answer of a handler whose GetCompanyData call on service returned a
\* and that computed out
HandlerAnswered(op, ticker, tr, service, a, out, status) ==
    /\ last' = FactsFields(a.facts) @@ DataFields(a) @@
               [op |-> op, ticker |-> ticker, at |-> now,
                pre |-> service.edgar, tickersKind |-> tr.kind,
                status |-> status] @@ Idle
    /\ handlerLog' = Logged([at |-> now, fetches |-> a.facts.fetches])
    /\ calc' = out
    /\ UNCHANGED <<useMock, now, edgar, rejected, answered, conc>>

\* handleStockFundamentals after GetCompanyData returned a
FundamentalsAggregated(ticker, tr, service, a) ==
    HandlerAnswered("handleStockFundamentals", ticker, tr, service, a,
                    Computation("handleStockFundamentals", a.cd,
                                CalculateScorecard(a.cd), << >>, NoDCF, a.warnings),
                    jsonResponse(200, "ok"))

\* handleStockFundamentals past the path check, with its own service
FundamentalsAnswered(ticker, tr, service, qr, pr, fr) ==
    FundamentalsAggregated(ticker, tr, service,
        GetCompanyData(service.edgar, service.mock, ticker, now, qr, pr, tr, fr))

\* handleStockFundamentals: builds its own StockService, aggregates, scores,
\* answers
handleStockFundamentals ==
    \E parts \in RequestPaths, qr \in QuoteResponses, pr \in ProfileResponses,
       tr \in TickersResponses, fr \in FactsResponses :
        IF Len(parts) < 4
        THEN InvalidRequest("handleStockFundamentals")
        ELSE FundamentalsAnswered(ToUpper(parts[4]), tr, NewStockService(useMock), qr, pr, fr)

\* the request paths of the endpoint /api/stocks/<ticker>/<endpoint>
PathsOf(endpoint) ==
    {<<"", "api", "stocks", t, endpoint>> : t \in InputTickers}
        \cup {<<"", "api", "stocks">>}

\* request.QueryStringParameters of the valuation and metrics requests: no
\* override, a revenue growth of 10%, a discount rate of 2.5%
NoOverride ==
    [revenue_growth |-> Absent, profit_margin |-> Absent, fcf_margin |-> Absent,
     discount_rate |-> Absent, terminal_growth |-> Absent]
RequestQueries ==
    {NoOverride,
     [NoOverride EXCEPT !.revenue_growth = Number(1000)],
     [NoOverride EXCEPT !.discount_rate = Number(250)]}

\* handleStockValuation after CalculateDCF returned dcf
ValuationValued(ticker, tr, service, a, input, dcf) ==
    \E marshalled \in MarshalOutcomes(dcf.result) :
        HandlerAnswered("handleStockValuation", ticker, tr, service, a,
                        Computation("handleStockValuation", a.cd, NoScorecard,
                                    input, dcf, a.warnings),
                        IF dcf.err # NoError THEN 400
                        ELSE jsonResponse(200, marshalled))

\* handleStockValuation after GetCompanyData returned a
ValuationAggregated(ticker, tr, service, input, a) ==
    ValuationValued(ticker, tr, service, a, input, CalculateDCF(a.cd, input))

\* handleStockValuation: parses the overrides, builds its own StockService,
\* aggregates, values, answers
handleStockValuation ==
    \E parts \in PathsOf("valuation"), params \in RequestQueries,
       qr \in QuoteResponses, pr \in ProfileResponses,
       tr \in TickersResponses, fr \in FactsResponses :
        IF Len(parts) < 4
        THEN InvalidRequest("handleStockValuation")
        ELSE ValuationAggregated(ToUpper(parts[4]), tr, NewStockService(useMock),
                 parseDCFInput(params),
                 GetCompanyData(NewEDGARClient(useMock), useMock, ToUpper(parts[4]),
                                now, qr, pr, tr, fr))

\* the warnings of the metrics response
metricsWarnings(warnings, dcf) ==
    IF dcf.err # NoError
    THEN Append(warnings, Warning("Valuation calculation failed", dcf.err))
    ELSE warnings

\* handleStockMetrics after CalculateScorecard and CalculateDCF returned
MetricsValued(ticker, tr, service, a, scorecard, input, dcf) ==
    \E marshalled \in MarshalOutcomes(dcf.result) :
        HandlerAnswered("handleStockMetrics", ticker, tr, service, a,
                        Computation("handleStockMetrics", a.cd, scorecard,
                                    input, dcf, metricsWarnings(a.warnings, dcf)),
                        jsonResponse(200, marshalled))

\* handleStockMetrics after GetCompanyData returned a
MetricsAggregated(ticker, tr, service, input, a) ==
    MetricsValued(ticker, tr, service, a, CalculateScorecard(a.cd), input,
                  CalculateDCF(a.cd, input))

\* handleStockMetrics: parses the overrides, builds its own StockService,
\* aggregates, scores, values, answers
handleStockMetrics ==
    \E parts \in PathsOf("metrics"), params \in RequestQueries,
       qr \in QuoteResponses, pr \in ProfileResponses,
       tr \in TickersResponses, fr \in FactsResponses :
        IF Len(parts) < 4
        THEN InvalidRequest("handleStockMetrics")
        ELSE MetricsAggregated(ToUpper(parts[4]), tr, NewStockService(useMock),
                 parseDCFInput(params),
                 GetCompanyData(NewEDGARClient(useMock), useMock, ToUpper(parts[4]),
                                now, qr, pr, tr, fr))

Next ==
    \/ Tick(MaxClock)
    \/ CallGetCompanyFacts

Spec == Init /\ [][Next]_vars

NextAgg ==
    \/ Tick(MaxAggClock)
    \/ CallGetCompanyData

SpecAgg == Init /\ [][NextAgg]_vars

NextHandler ==
    \/ Tick(MaxAggClock)
    \/ handleStockFundamentals

SpecHandler == Init /\ [][NextHandler]_vars

\* no request has been aggregated for yet: a handler keeps nothing from one
\* request to the next, so one request is followed
FirstRequest == handlerLog = << >>

NextRequests ==
    \/ FirstRequest /\ handleStockFundamentals
    \/ FirstRequest /\ handleStockValuation
    \/ FirstRequest /\ handleStockMetrics

SpecRequests == Init /\ [][NextRequests]_vars

(***************************************************************************)
(* The scorecard on its own: CalculateScorecard applied to a CompanyData    *)
(***************************************************************************)
\* prices in cents; with 100 million shares and a net income of 100 million
\* dollars the P/E ratio is the price in dollars
ScorePrices == {500, 800, 1200, 1500, 1800, 2400, 2850, 3000, 3100}

ScoreCaps == {Dollars(0, 0), Dollars(1000, 0), Dollars(999, 999999)}

ScoreQuotes ==
    {NoQuote} \cup
    {[present |-> TRUE, Ticker |-> "ZZZ", CompanyName |-> "", CurrentPrice |-> p,
      MarketCap |-> c] : p \in ScorePrices, c \in ScoreCaps}

ScoreStatements ==
    {NoStatement} \cup
    {[present |-> TRUE, Revenue |-> 1000, NetIncome |-> ni, FreeCashFlow |-> f,
      TotalDebt |-> d, ShareholdersEquity |-> e] :
        ni \in {100, 0, -50}, f \in {90, 80, 40, -10}, d \in {400, 500},
        e \in {0, 400, 500, 1000}}

ScoreHistories ==
    {NoHistoricalData} \cup {[present |-> TRUE, PERatioAvg5Year |-> a] : a \in {0, 20}}

ScoreShares == {0, 100}

\* the CompanyData values the scorecard is applied to
ScoreInputs ==
    {[Ticker |-> "ZZZ", CompanyName |-> "ZZZ", CIK |-> "", FIGI |-> "",
      Quote |-> q, LatestFinancials |-> f, HistoricalData |-> h, SharesOutstanding |-> n] :
        q \in ScoreQuotes, f \in ScoreStatements, h \in ScoreHistories, n \in ScoreShares}

InitScore ==
    /\ useMock = FALSE
    /\ now = 0
    /\ edgar = NewEDGARClient(useMock)
    /\ rejected = {}
    /\ handlerLog = << >>
    /\ last = Idle
    /\ answered = EmptyMap
    /\ conc = NoGoroutines
    /\ calc \in {[op |-> "CompanyData", cd |-> cd] : cd \in ScoreInputs}

\* calculator.CalculateScorecard(calc.cd)
CallCalculateScorecard ==
    /\ calc.op = "CompanyData"
    /\ calc' = [op |-> "CalculateScorecard", cd |-> calc.cd,
                scorecard |-> CalculateScorecard(calc.cd)]
    /\ UNCHANGED <<useMock, now, edgar, rejected, handlerLog, last, answered, conc>>

NextScore == CallCalculateScorecard

SpecScore == InitScore /\ [][NextScore]_vars

(***************************************************************************)
(* The valuation on its own: parseDCFInput and CalculateDCF applied to a    *)
(* query string and a CompanyData                                           *)
(***************************************************************************)
DCFQuotes ==
    {NoQuote,
     [present |-> TRUE, Ticker |-> "ZZZ", CompanyName |-> "", CurrentPrice |-> 10000,
      MarketCap |-> Dollars(1000, 0)]}

DCFStatements ==
    {NoStatement} \cup
    {[present |-> TRUE, Revenue |-> rev, NetIncome |-> ni, FreeCashFlow |-> f,
      TotalDebt |-> 400, ShareholdersEquity |-> 1000] :
        rev \in {1000, 0}, ni \in {100, 1000}, f \in {50, -10}}

DCFShares == {0, 100}

\* the CompanyData values the valuation is applied to
DCFInputs ==
    {[Ticker |-> "ZZZ", CompanyName |-> "ZZZ", CIK |-> "", FIGI |-> "",
      Quote |-> q, LatestFinancials |-> f, HistoricalData |-> NoHistoricalData,
      SharesOutstanding |-> n] :
        q \in DCFQuotes, f \in DCFStatements, n \in DCFShares}

\* request.QueryStringParameters
QueryStringParameters ==
    [revenue_growth  : {Absent, NotANumber, Number(0), Number(1000)},
     profit_margin   : {Absent, Number(0), Number(2500)},
     fcf_margin      : {Absent, Number(2000)},
     discount_rate   : {Absent, Number(0), Number(200), Number(250)},
     terminal_growth : {Absent, Number(0), Number(300), Number(1000)}]

InitDCF ==
    /\ useMock = FALSE
    /\ now = 0
    /\ edgar = NewEDGARClient(useMock)
    /\ rejected = {}
    /\ handlerLog = << >>
    /\ last = Idle
    /\ answered = EmptyMap
    /\ conc = NoGoroutines
    /\ calc \in {[op |-> "Request", cd |-> cd, params |-> params] :
                    cd \in DCFInputs, params \in QueryStringParameters}

\* the record of a CalculateDCF call that returned out for the input parsed
\* from the query string
dcfCalled(input, out) ==
    /\ calc' = [op |-> "CalculateDCF", cd |-> calc.cd, params |-> calc.params,
                input |-> input, result |-> out.result, err |-> out.err]
    /\ UNCHANGED <<useMock, now, edgar, rejected, handlerLog, last, answered, conc>>

\* CalculateDCF on the parsed input
dcfParsed(input) == dcfCalled(input, CalculateDCF(calc.cd, input))

\* calculator.CalculateDCF(calc.cd, parseDCFInput(calc.params))
CallCalculateDCF ==
    /\ calc.op = "Request"
    /\ dcfParsed(parseDCFInput(calc.params))

NextDCF == CallCalculateDCF

SpecDCF == InitDCF /\ [][NextDCF]_vars

(***************************************************************************)
(* Concurrent getCIK calls on one EDGARClient                               *)
(*                                                                          *)
(* EDGARClient has no lock and no atomic field: goroutines that share a     *)
(* client interleave statement by statement, and the accesses to cikCache,  *)
(* tickerMapCache and tickerMapLoadedAt are data races.  A race is modelled *)
(* by the outcomes the Go memory model and runtime allow for it.            *)
(***************************************************************************)
GoroutineIds == {1, 2}

\* the calls each goroutine makes
MaxCallsEach == 1

\* a goroutine that is not inside getCIK
IdleGoroutine ==
    [pc |-> "idle", ticker |-> "", calls |-> 0, window |-> 0, fetches |-> 0,
     loaded |-> [m |-> NilMap, err |-> NoError], freshErr |-> NoError,
     seen |-> NilMap, cik |-> NoCIK, err |-> NoError]

\* a client that loaded a catalog and resolved a ticker from it at time 0
HeldClient ==
    getCIK(NewEDGARClient(FALSE), "zzz", 0, [kind |-> "ok", body |-> PayloadA]).c

\* the client the goroutines share and the time they run at: a new client, a
\* client with a fresh catalog, a client with a stale catalog
ConcStarts ==
    {[c |-> NewEDGARClient(FALSE), at |-> 0],
     [c |-> HeldClient, at |-> 0],
     [c |-> HeldClient, at |-> tickerMapCacheTTL + 1]}

InitConc ==
    /\ useMock = FALSE
    /\ \E s \in ConcStarts : edgar = s.c /\ now = s.at
    /\ rejected = {}
    /\ handlerLog = << >>
    /\ last = Idle
    /\ calc = NoCalc
    /\ answered = EmptyMap
    /\ conc = [op |-> "goroutines",
               procs |-> [g \in GoroutineIds |-> IdleGoroutine],
               refreshes |-> 0, publisher |-> 0, fatal |-> FALSE]

\* goroutine g is at program point pc and the process has not died
At(g, pc) == conc.op = "goroutines" /\ ~conc.fatal /\ conc.procs[g].pc = pc

\* goroutine g moves on as p
Becomes(g, p) == [conc EXCEPT !.procs[g] = p]

\* the process dies of a fatal error of the runtime
Fatal == [conc EXCEPT !.fatal = TRUE]

\* getCIK returns (cik, err) to goroutine g
Returned(g, cik, err) ==
    [conc.procs[g] EXCEPT !.pc = "done", !.cik = cik, !.err = err]

\* the maps a reader without synchronisation may find behind a map reference
\* another goroutine has just published: any part of the entries written
SubMaps(table) ==
    {MakeMap([t \in keys |-> table.m[t]]) : keys \in SUBSET (DOMAIN table.m)}

\* what goroutine g may read as c.tickerMapCache in lookupCIKFromSEC
CatalogViews(g) ==
    IF edgar.tickerMapCache.isNil \/ conc.publisher \in {0, g}
    THEN {edgar.tickerMapCache}
    ELSE SubMaps(edgar.tickerMapCache)

\* what goroutine g may compute as needsRefresh: tickerMapLoadedAt is a
\* multi-word time.Time, and a read that races with its assignment may be torn
FreshnessReads(g) ==
    IF \E h \in GoroutineIds \ {g} : conc.procs[h].pc = "stamp"
    THEN BOOLEAN
    ELSE {needsRefresh(edgar, now)}

\* the outcomes of a read of cikCache by goroutine g: a read that races with
\* a write may end the process ("concurrent map read and map write")
MemoReadOutcomes(g) ==
    IF \E h \in GoroutineIds \ {g} : conc.procs[h].pc = "cache"
    THEN {"read", "fatal"}
    ELSE {"read"}

\* the outcomes of a write to cikCache by goroutine g: a write that races
\* with another access may end the process ("concurrent map writes"), and one
\* that races with another write may be lost
MemoWriteOutcomes(g) ==
    {"stored"}
        \cup (IF \E h \in GoroutineIds \ {g} : conc.procs[h].pc \in {"memo", "cache"}
              THEN {"fatal"} ELSE {})
        \cup (IF \E h \in GoroutineIds \ {g} : conc.procs[h].pc = "cache"
              THEN {"lost"} ELSE {})

\* getCIK is called: the ticker is uppercased and ensureTickerMapFresh entered
Begin(g) ==
    /\ conc.op = "goroutines" /\ ~conc.fatal
    /\ conc.procs[g].pc \in {"idle", "done"}
    /\ conc.procs[g].calls < MaxCallsEach
    /\ \E t \in InputTickers :
           conc' = Becomes(g, [IdleGoroutine EXCEPT
                                   !.pc = "check", !.ticker = ToUpper(t),
                                   !.calls = conc.procs[g].calls + 1])
    /\ UNCHANGED <<useMock, now, edgar, rejected, handlerLog, last, calc, answered>>

\* ensureTickerMapFresh: cacheAge and needsRefresh
CheckFresh(g) ==
    /\ At(g, "check")
    /\ \E stale \in FreshnessReads(g) :
           conc' = Becomes(g, [conc.procs[g] EXCEPT
                                   !.pc = IF stale THEN "fetch" ELSE "memo",
                                   !.window = conc.refreshes])
    /\ UNCHANGED <<useMock, now, edgar, rejected, handlerLog, last, calc, answered>>

\* ensureTickerMapFresh: tickerMap, err := c.loadTickerMap()
Fetch(g) ==
    /\ At(g, "fetch")
    /\ \E resp \in TickersResponses :
           conc' = Becomes(g, [conc.procs[g] EXCEPT
                                   !.pc = "store",
                                   !.loaded = loadTickerMap(resp),
                                   !.fetches = @ + 1])
    /\ UNCHANGED <<useMock, now, edgar, rejected, handlerLog, last, calc, answered>>

\* ensureTickerMapFresh: the error paths, or c.tickerMapCache = tickerMap
StoreCatalog(g) ==
    /\ At(g, "store")
    /\ IF conc.procs[g].loaded.err # NoError
       THEN /\ conc' = Becomes(g, [conc.procs[g] EXCEPT
                                       !.pc = "memo",
                                       !.loaded = IdleGoroutine.loaded,
                                       !.freshErr = IF edgar.tickerMapCache.isNil
                                                    THEN conc.procs[g].loaded.err
                                                    ELSE NoError])
            /\ edgar' = edgar
       ELSE /\ edgar' = [edgar EXCEPT !.tickerMapCache = conc.procs[g].loaded.m]
            /\ conc' = [Becomes(g, [conc.procs[g] EXCEPT
                                        !.pc = "stamp",
                                        !.loaded = IdleGoroutine.loaded])
                            EXCEPT !.publisher = g]
    /\ UNCHANGED <<useMock, now, rejected, handlerLog, last, calc, answered>>

\* ensureTickerMapFresh: c.tickerMapLoadedAt = time.Now()
StampCatalog(g) ==
    /\ At(g, "stamp")
    /\ edgar' = [edgar EXCEPT !.tickerMapLoadedAt = now]
    /\ conc' = [Becomes(g, [conc.procs[g] EXCEPT !.pc = "memo"])
                    EXCEPT !.refreshes = @ + 1]
    /\ UNCHANGED <<useMock, now, rejected, handlerLog, last, calc, answered>>

\* getCIK steps 2 and 3: the memo cache, then the static table
ReadMemo(g) ==
    /\ At(g, "memo")
    /\ \E outcome \in MemoReadOutcomes(g) :
           conc' = IF outcome = "fatal" THEN Fatal
                   ELSE IF conc.procs[g].ticker \in DOMAIN edgar.cikCache
                   THEN Becomes(g, Returned(g, edgar.cikCache[conc.procs[g].ticker],
                                            NoError))
                   ELSE IF conc.procs[g].ticker \in DOMAIN commonCIKs
                   THEN Becomes(g, [conc.procs[g] EXCEPT
                                        !.pc = "cache",
                                        !.cik = commonCIKs[conc.procs[g].ticker]])
                   ELSE Becomes(g, [conc.procs[g] EXCEPT !.pc = "lookup"])
    /\ UNCHANGED <<useMock, now, edgar, rejected, handlerLog, last, calc, answered>>

\* getCIK step 4: lookupCIKFromSEC on the catalog the goroutine reads
Lookup(g) ==
    /\ At(g, "lookup")
    /\ \E view \in CatalogViews(g) :
           LET found == lookupCIKFromSEC([edgar EXCEPT !.tickerMapCache = view],
                                         conc.procs[g].ticker)
               p == [conc.procs[g] EXCEPT !.seen = view]
           IN  conc' = IF found.err # NoError
                       THEN Becomes(g, [p EXCEPT !.pc = "done", !.err = found.err])
                       ELSE Becomes(g, [p EXCEPT !.pc = "cache", !.cik = found.cik])
    /\ UNCHANGED <<useMock, now, edgar, rejected, handlerLog, last, calc, answered>>

\* getCIK: c.cikCache[ticker] = cik; return cik, nil
CacheCIK(g) ==
    /\ At(g, "cache")
    /\ \E outcome \in MemoWriteOutcomes(g) :
           /\ conc' = IF outcome = "fatal" THEN Fatal
                      ELSE Becomes(g, Returned(g, conc.procs[g].cik, NoError))
           /\ edgar' = IF outcome = "stored"
                       THEN [edgar EXCEPT !.cikCache =
                                 Put(@, conc.procs[g].ticker, conc.procs[g].cik)]
                       ELSE edgar
    /\ UNCHANGED <<useMock, now, rejected, handlerLog, last, calc, answered>>

NextConc ==
    \E g \in GoroutineIds :
        \/ Begin(g)
        \/ CheckFresh(g)
        \/ Fetch(g)
        \/ StoreCatalog(g)
        \/ StampCatalog(g)
        \/ ReadMemo(g)
        \/ Lookup(g)
        \/ CacheCIK(g)

SpecConc == InitConc /\ [][NextConc]_vars

(***************************************************************************)
(* The merge steps of GetCompanyData taken in any order.  GetCompanyData    *)
(* itself runs them in the order quote, profile, financials, FIGI; here     *)
(* each provider result, once available, is merged exactly once, at any     *)
(* time.                                                                    *)
(***************************************************************************)
MergeSteps == {"quote", "profile", "financials", "figi"}

\* what the four provider calls of one GetCompanyData(ticker) may return
ProviderResults(mock, ticker) ==
    [ticker : {ticker},
     q : {GetQuote(mock, ticker, resp) : resp \in QuoteResponses},
     p : {GetProfile(mock, ticker, resp) : resp \in ProfileResponses},
     f : {GetCompanyFacts(NewEDGARClient(mock), ticker, 0, tr, fr) :
              tr \in TickersResponses, fr \in FactsResponses},
     g : {MapTicker(mock, ticker)}]

InitMerge ==
    /\ useMock \in BOOLEAN
    /\ now = 0
    /\ edgar = NewEDGARClient(useMock)
    /\ rejected = {}
    /\ handlerLog = << >>
    /\ last = Idle
    /\ answered = EmptyMap
    /\ conc = NoGoroutines
    /\ \E t \in InputTickers :
           \E r \in ProviderResults(useMock, t) :
               calc = [op |-> "Merge", results |-> r, merged |-> {},
                       acc |-> newCompanyData(t)]

\* the provider result named step is merged into acc, once
Merged(step, acc) ==
    /\ calc.op = "Merge"
    /\ step \notin calc.merged
    /\ calc' = [calc EXCEPT !.acc = acc, !.merged = @ \cup {step}]
    /\ UNCHANGED <<useMock, now, edgar, rejected, handlerLog, last, answered, conc>>

MergeQuoteResult == Merged("quote", MergeQuote(calc.acc, calc.results.q))

MergeProfileResult == Merged("profile", MergeProfile(calc.acc, calc.results.p))

MergeFinancialsResult == Merged("financials", MergeFinancials(calc.acc, calc.results.f))

MergeFIGIResult == Merged("figi", MergeFIGI(calc.acc, calc.results.g))

\* the default company name and the return, once the four results are merged
ReturnCompanyData ==
    /\ calc.op = "Merge"
    /\ calc.merged = MergeSteps
    /\ calc' = [op |-> "Merged", results |-> calc.results, merged |-> calc.merged,
                acc |-> defaultCompanyName(calc.results.ticker, calc.acc)]
    /\ UNCHANGED <<useMock, now, edgar, rejected, handlerLog, last, answered, conc>>

NextMerge ==
    \/ MergeQuoteResult
    \/ MergeProfileResult
    \/ MergeFinancialsResult
    \/ MergeFIGIResult
    \/ ReturnCompanyData

SpecMerge == InitMerge /\ [][NextMerge]_vars




(***************************************************************************)
(* Vocabulary of the properties: the most recent call, seen from outside    *)
(***************************************************************************)
\* the call ran getCIK (resolve) for the canonical ticker LastTicker
Resolved == last.resolved
LastTicker == ToUpper(last.ticker)

\* the resolver as the call found it
PreCatalog == last.pre.tickerMapCache
PreMemo == last.pre.cikCache
PreAge == Since(last.pre.tickerMapLoadedAt, last.at)
PreStale == ~PreCatalog.isNil /\ PreAge > tickerMapCacheTTL

InStatic == LastTicker \in DOMAIN commonCIKs
InMemo == LastTicker \in DOMAIN PreMemo

\* the call issued a bulk fetch and it failed / succeeded
FetchFailed == last.fetches > 0 /\ last.tickersKind # "ok"
FetchSucceeded == last.fetches > 0 /\ last.tickersKind = "ok"

NotFoundError ==
    DataSourceError("EDGAR", "CIK not found for ticker %s", "CIK_NOT_FOUND", LastTicker)

(***************************************************************************)
(* C1  Stale catalog and failed refresh                                     *)
(***************************************************************************)
\* C1 (as stated): on a resolver holding a stale catalog, when the bulk fetch
\* fails, resolve(t) for every ticker t of the held catalog succeeds and
\* returns the CIK that catalog maps t to.
C1_StaleCatalogAnswers ==
    (Resolved /\ PreStale /\ FetchFailed /\ LastTicker \in DOMAIN PreCatalog.m)
        => (last.err = NoError /\ last.cik = PreCatalog.m[LastTicker])

\* C1 (amended): on a resolver holding a stale catalog, when the bulk fetch
\* fails, resolve(t) for every ticker t of the held catalog succeeds; it
\* returns the memo-cache entry of t if there is one, else the static-table
\* entry of t if there is one, else the CIK the held catalog maps t to.
C1_StaleCatalogNeverFails ==
    (Resolved /\ PreStale /\ FetchFailed /\ LastTicker \in DOMAIN PreCatalog.m)
        => /\ last.err = NoError
           /\ last.cik = IF InMemo THEN PreMemo[LastTicker]
                         ELSE IF InStatic THEN commonCIKs[LastTicker]
                         ELSE PreCatalog.m[LastTicker]
           /\ edgar.tickerMapCache = PreCatalog

\* a stale catalog, a failed fetch, and a ticker answered from the catalog
C1_Witness ==
    /\ Resolved /\ PreStale /\ FetchFailed
    /\ LastTicker \in DOMAIN PreCatalog.m
    /\ ~InMemo /\ ~InStatic
    /\ last.cik = PreCatalog.m[LastTicker]

(***************************************************************************)
(* C2  No catalog and failed fetch                                          *)
(***************************************************************************)
\* C2: when no catalog was ever loaded and the bulk fetch fails, resolve(t)
\* for a ticker in neither the memo cache nor the static table fails with the
\* error of the failed bulk fetch.
C2_FetchErrorSurfaces ==
    (Resolved /\ PreCatalog.isNil /\ FetchFailed /\ ~InMemo /\ ~InStatic)
        => (last.err # NoError /\ last.err = last.freshErr)

(***************************************************************************)
(* C3  Static table and the bulk fetch                                      *)
(***************************************************************************)
\* C3: for every ticker of the static table, resolve returns the hardcoded
\* CIK and issues no bulk fetch during the call, whatever the catalog state.
C3_StaticNeverFetches ==
    (Resolved /\ InStatic)
        => (last.err = NoError /\ last.cik = commonCIKs[LastTicker] /\ last.fetches = 0)

(***************************************************************************)
(* C4  Memo and static hits never fail                                      *)
(***************************************************************************)
\* C4: resolve(t) for a ticker in the memo cache or the static table never
\* fails, whatever the resolver state and the outcome of the refresh.
C4_HitsNeverFail ==
    (Resolved /\ (InMemo \/ InStatic)) => (last.err = NoError /\ last.cik # NoCIK)

\* a static-table ticker resolved while no catalog exists and the fetch fails
C4_Witness ==
    /\ Resolved /\ InStatic /\ ~InMemo
    /\ PreCatalog.isNil /\ FetchFailed /\ last.freshErr # NoError
    /\ last.err = NoError

(***************************************************************************)
(* C5  Lifetime of the resolver caches                                      *)
(***************************************************************************)
\* C5: the resolver caches are shared by all requests of the process, so two
\* consecutive aggregation calls less than 24h apart cause at most one bulk
\* fetch between them.
C5_OneFetchPerDay ==
    (Len(handlerLog) = 2 /\ handlerLog[2].at - handlerLog[1].at < tickerMapCacheTTL)
        => handlerLog[1].fetches + handlerLog[2].fetches <= 1

(***************************************************************************)
(* C6  One freshness check, no fetch while fresh                            *)
(***************************************************************************)
\* C6: for a ticker in neither the static table nor the memo cache, one
\* resolve call makes exactly one freshness check, and issues no bulk fetch
\* when a catalog is loaded and its age is at most the 24h TTL.
C6_OneCheckNoFetchWhenFresh ==
    (Resolved /\ ~InStatic /\ ~InMemo)
        => /\ last.checks = 1
           /\ (~PreCatalog.isNil /\ PreAge <= tickerMapCacheTTL) => last.fetches = 0

\* a lookup against a catalog exactly 24h old
C6_Witness ==
    /\ Resolved /\ ~InStatic /\ ~InMemo
    /\ ~PreCatalog.isNil /\ PreAge = tickerMapCacheTTL
    /\ last.checks = 1 /\ last.fetches = 0

(***************************************************************************)
(* C7  A rejected ticker becomes resolvable after the TTL                   *)
(***************************************************************************)
\* C7: a ticker that resolve rejected as not found since the held catalog was
\* loaded is resolved by the first later call that refreshes the catalog
\* successfully (the catalog being absent or older than 24h) with a catalog
\* containing it: that call returns the new catalog's CIK.
C7_RejectedBecomesResolvable ==
    (Resolved /\ LastTicker \in last.preRejected /\ FetchSucceeded
        /\ LastTicker \in DOMAIN edgar.tickerMapCache.m)
        => (last.err = NoError /\ last.cik = edgar.tickerMapCache.m[LastTicker])

\* a ticker rejected against a loaded catalog, resolved after the TTL elapsed
C7_Witness ==
    /\ Resolved /\ LastTicker \in last.preRejected
    /\ PreStale /\ LastTicker \notin DOMAIN PreCatalog.m
    /\ FetchSucceeded
    /\ LastTicker \in DOMAIN edgar.tickerMapCache.m
    /\ last.cik = edgar.tickerMapCache.m[LastTicker]

(***************************************************************************)
(* C8  Unknown ticker                                                       *)
(***************************************************************************)
\* C8: resolve(t) for a ticker in none of the memo cache, the static table
\* and the catalog held after the freshness step fails with the EDGAR error
\* CIK_NOT_FOUND whose message names the ticker, and leaves the memo cache
\* as it was.
C8_UnknownTickerNotFound ==
    (Resolved /\ ~InMemo /\ ~InStatic /\ ~edgar.tickerMapCache.isNil
        /\ LastTicker \notin DOMAIN edgar.tickerMapCache.m)
        => /\ last.err = NotFoundError
           /\ last.cik = NoCIK
           /\ edgar.cikCache = PreMemo

\* an unknown ticker looked up in a catalog loaded by this very call
C8_Witness ==
    /\ Resolved /\ ~InMemo /\ ~InStatic
    /\ FetchSucceeded
    /\ LastTicker \notin DOMAIN edgar.tickerMapCache.m
    /\ last.err.Code = "CIK_NOT_FOUND" /\ last.err.Arg = "NEW"

(***************************************************************************)
(* C9  Warnings of an aggregation                                           *)
(***************************************************************************)
Failed(err) == IF err # NoError THEN 1 ELSE 0

\* C9: GetCompanyData always returns a CompanyData for the ticker, and the
\* number of warnings equals the number of failed calls among quote, profile
\* and financial statement; the identifier-mapping call contributes none.
C9_WarningsCountFailures ==
    last.aggregated
        => /\ last.cd.Ticker = LastTicker
           /\ Len(last.warnings)
                = Failed(last.quoteErr) + Failed(last.profileErr) + Failed(last.factsErr)

\* all three sources failed
C9_Witness ==
    /\ last.aggregated
    /\ last.quoteErr # NoError /\ last.profileErr # NoError /\ last.factsErr # NoError
    /\ Len(last.warnings) = 3

(***************************************************************************)
(* C10  Absent fields and warnings                                          *)
(***************************************************************************)
\* the optional fields of a CompanyData that are absent
AbsentFields(cd) ==
    (IF cd.CIK = "" THEN {"CIK"} ELSE {})
        \cup (IF cd.FIGI = "" THEN {"FIGI"} ELSE {})
        \cup (IF ~cd.Quote.present THEN {"Quote"} ELSE {})
        \cup (IF ~cd.LatestFinancials.present THEN {"LatestFinancials"} ELSE {})
        \cup (IF ~cd.HistoricalData.present THEN {"HistoricalData"} ELSE {})

\* the optional fields whose absence a warning explains
ExplainedBy(w) ==
    CASE w.text = "Price data unavailable"       -> {"Quote"}
      [] w.text = "Fundamental data unavailable" -> {"LatestFinancials"}
      [] OTHER                                   -> {}

ExplainedFields(warnings) == UNION {ExplainedBy(warnings[i]) : i \in 1..Len(warnings)}

C11_NamePrecedence ==
    last.aggregated
        => /\ last.cd.CompanyName
                = IF last.profileErr = NoError /\ last.profileName # ""
                  THEN last.profileName
                  ELSE IF last.figiErr = NoError /\ last.figiName # ""
                  THEN last.figiName
                  ELSE last.ticker
           /\ last.ticker # "" => last.cd.CompanyName # ""

\* the profile call succeeded with an empty name while the quote was present,
\* and the identifier-mapping name was used
C11_Witness ==
    /\ last.aggregated
    /\ last.profileErr = NoError /\ last.profileName = ""
    /\ last.figiErr = NoError /\ last.figiName # ""
    /\ last.cd.CompanyName = last.figiName
    /\ last.cd.Quote.present /\ last.cd.Quote.CompanyName = ""

(***************************************************************************)
(* Vocabulary of the scorecard properties                                   *)
(***************************************************************************)
Scored == calc.op = "CalculateScorecard"

\* the quote and the statement of the scored CompanyData are both present
ScoredWithQuoteAndStatement ==
    Scored /\ calc.cd.Quote.present /\ calc.cd.LatestFinancials.present

\* the P/E ratio of the scored CompanyData is defined: positive earnings and shares
ScoredWithEarnings ==
    /\ ScoredWithQuoteAndStatement
    /\ calc.cd.LatestFinancials.NetIncome > 0
    /\ calc.cd.SharesOutstanding > 0

\* price / (net income / shares) of the scored CompanyData, as the fraction n/d
ScoredPE ==
    Ratio(calc.cd.Quote.CurrentPrice * calc.cd.SharesOutstanding,
          100 * calc.cd.LatestFinancials.NetIncome)

\* the scored CompanyData has a positive 5-year average P/E
ScoredWithAverage ==
    calc.cd.HistoricalData.present /\ calc.cd.HistoricalData.PERatioAvg5Year > 0

(***************************************************************************)
(* C12  score is total                                                      *)
(***************************************************************************)
\* every optional field of the CompanyData is unset
AllUnset(cd) ==
    /\ ~cd.Quote.present
    /\ ~cd.LatestFinancials.present
    /\ ~cd.HistoricalData.present
    /\ cd.SharesOutstanding = 0

\* C12: for a CompanyData with every optional field unset, each of the five
\* metrics has rating N/A, available = false and the value 0; the overall
\* score is "0/5 metrics available" and the summary "Insufficient data for
\* analysis".
C12_ScoreIsTotal ==
    (Scored /\ AllUnset(calc.cd))
        => /\ \A i \in 1..5 :
                /\ Metrics(calc.scorecard)[i].Rating = RatingNA
                /\ ~Metrics(calc.scorecard)[i].Available
                /\ Metrics(calc.scorecard)[i].Current = Zero
           /\ calc.scorecard.OverallScore = ScoreText(0, 5, "metrics available")
           /\ calc.scorecard.Summary = "Insufficient data for analysis"

\* the scorecard of a CompanyData with every optional field unset
C12_Witness ==
    /\ Scored /\ AllUnset(calc.cd)
    /\ calc.scorecard.PEGRatio.Message = "P/E ratio not available"
    /\ calc.scorecard.Summary = "Insufficient data for analysis"

(***************************************************************************)
(* C13  FCF yield                                                           *)
(***************************************************************************)
\* the rating the yield thresholds give: > 8 favorable, (4, 8] neutral, <= 4
\* unfavorable
FCFYieldBand(fcf, cap) ==
    IF YieldAbove(fcf, cap, 8) THEN RatingGreen
    ELSE IF YieldAbove(fcf, cap, 4) THEN RatingYellow
    ELSE RatingRed

C14_PEGRating ==
    (Scored /\ calc.scorecard.PERatio.Available)
        => calc.scorecard.PEGRatio.Rating
             = IF ScoredPE.n < 8 * ScoredPE.d THEN RatingGreen
               ELSE IF 2 * ScoredPE.n <= 3 * 8 * ScoredPE.d THEN RatingYellow
               ELSE RatingRed

(***************************************************************************)
(* C15  P/E                                                                 *)
(***************************************************************************)
\* the rating the P/E thresholds give
PEBand ==
    IF ScoredWithAverage
    THEN IF 10 * ScoredPE.n < 9 * calc.cd.HistoricalData.PERatioAvg5Year * ScoredPE.d
         THEN RatingGreen
         ELSE IF 10 * ScoredPE.n > 12 * calc.cd.HistoricalData.PERatioAvg5Year * ScoredPE.d
         THEN RatingRed
         ELSE RatingYellow
    ELSE IF ScoredPE.n < 15 * ScoredPE.d THEN RatingGreen
         ELSE IF ScoredPE.n > 30 * ScoredPE.d THEN RatingRed
         ELSE RatingYellow

\* C15 (as stated): where the P/E ratio is defined its rating follows the
\* thresholds (against 0.9 and 1.2 times a positive 5-year average, else
\* against 15 and 30), and the metric is unfavorable whenever the net income
\* of the statement is <= 0.
C15_PERating ==
    /\ ScoredWithEarnings => calc.scorecard.PERatio.Rating = PEBand
    /\ (Scored /\ calc.cd.LatestFinancials.present /\ calc.cd.LatestFinancials.NetIncome <= 0)
          => calc.scorecard.PERatio.Rating = RatingRed

\* C15 (amended): where the P/E ratio is defined its rating follows the
\* thresholds, and the metric is unfavorable whenever the net income is <= 0
\* and a quote is present; without a quote its rating is N/A.
C15_PERatingWithQuote ==
    /\ ScoredWithEarnings
          => /\ calc.scorecard.PERatio.Rating = PEBand
             /\ calc.scorecard.PERatio.Available
    /\ (ScoredWithQuoteAndStatement /\ calc.cd.LatestFinancials.NetIncome <= 0)
          => calc.scorecard.PERatio.Rating = RatingRed
    /\ (Scored /\ ~calc.cd.Quote.present) => calc.scorecard.PERatio.Rating = RatingNA

\* a P/E of 28.5 with no historical average, rated neutral
C15_Witness ==
    /\ ScoredWithEarnings /\ ~ScoredWithAverage
    /\ 2 * ScoredPE.n = 57 * ScoredPE.d
    /\ calc.scorecard.PERatio.Rating = RatingYellow

(***************************************************************************)
(* C16  Roll-up of the scorecard                                            *)
(***************************************************************************)
\* the computed metrics of the scorecard, and those with a given rating
ComputedMetrics == {i \in 1..5 : Metrics(calc.scorecard)[i].Available}
ComputedRated(rating) == {i \in ComputedMetrics : Metrics(calc.scorecard)[i].Rating = rating}
Total == Cardinality(ComputedMetrics)
Favorable == Cardinality(ComputedRated(RatingGreen))
Neutral == Cardinality(ComputedRated(RatingYellow))
Unfavorable == Cardinality(ComputedRated(RatingRed))

Valued == calc.op = "CalculateDCF"

\* the two hard preconditions of the valuation
PreconditionsMet == calc.cd.LatestFinancials.present /\ calc.cd.SharesOutstanding > 0

\* the overridable fields, and those supplied as an override
Overridable ==
    {"RevenueGrowthRate", "ProfitMargin", "FCFMargin", "DiscountRate", "TerminalGrowthRate"}
Overridden == {f \in Overridable : calc.input[f].set}

(***************************************************************************)
(* C17  Preconditions of the valuation                                      *)
(***************************************************************************)
\* C17: CalculateDCF returns an error and no ValuationResult whenever the
\* CompanyData has no financial statement or SharesOutstanding <= 0, whatever
\* the quote and the overrides; otherwise it returns a result and no error.
C17_PreconditionsDecide ==
    Valued
        => IF PreconditionsMet
           THEN calc.err = NoError /\ calc.result.present
           ELSE calc.err # NoError /\ calc.result = NoValuation

\* a statement and a quote are present and overrides are supplied, but the
\* shares outstanding are 0
C17_Witness ==
    /\ Valued
    /\ calc.cd.LatestFinancials.present /\ calc.cd.Quote.present
    /\ calc.cd.SharesOutstanding = 0
    /\ Overridden = Overridable
    /\ calc.err = PlainError("shares outstanding not available")
    /\ ~calc.result.present

(***************************************************************************)
(* C18  Provenance of the assumptions                                       *)
(***************************************************************************)
\* C18: the provenance tag of the assumptions used is "user_input" if any one
\* of the five overridable fields was supplied as an override, and "defaults"
\* only when none was.
C18_ProvenanceOfAnyOverride ==
    (Valued /\ calc.result.present)
        => calc.result.Assumptions.Source
             = IF Overridden # {} THEN "user_input" ELSE "defaults"

(***************************************************************************)
(* C19  Resolution of the assumptions                                       *)
(***************************************************************************)
\* what a field resolves to without an override
Underived(f) ==
    CASE f = "RevenueGrowthRate"  -> Rate(800)
      [] f = "ProfitMargin"       ->
            IF calc.cd.LatestFinancials.Revenue > 0
               /\ calc.cd.LatestFinancials.NetIncome > 0
               /\ calc.cd.LatestFinancials.NetIncome < calc.cd.LatestFinancials.Revenue
            THEN Ratio(calc.cd.LatestFinancials.NetIncome, calc.cd.LatestFinancials.Revenue)
            ELSE Rate(1500)
      [] f = "FCFMargin"          ->
            IF calc.cd.LatestFinancials.Revenue > 0
               /\ calc.cd.LatestFinancials.FreeCashFlow > 0
               /\ calc.cd.LatestFinancials.FreeCashFlow < calc.cd.LatestFinancials.Revenue
            THEN Ratio(calc.cd.LatestFinancials.FreeCashFlow, calc.cd.LatestFinancials.Revenue)
            ELSE Rate(1200)
      [] f = "DiscountRate"       -> Rate(1000)
      [] f = "TerminalGrowthRate" -> Rate(250)

\* C19: each assumption is resolved on its own: with an override supplied the
\* assumption used equals the override, for every supplied value including 0;
\* without one, profit margin = net income / revenue if that is in (0,1) else
\* 0.15, FCF margin = FCF / revenue if that is in (0,1) else 0.12, growth =
\* 0.08, discount rate = 0.10, terminal growth = 0.025.
C19_OverrideThenHistoryThenDefault ==
    (Valued /\ calc.result.present)
        => \A f \in Overridable :
              RateEq(calc.result.Assumptions[f],
                     IF calc.input[f].set THEN calc.input[f].v ELSE Underived(f))

(***************************************************************************)
(* C20  Discount rate not above the terminal growth rate                    *)
(***************************************************************************)
\* C20: CalculateDCF returns no ValuationResult whose resolved discount rate
\* is less than or equal to its resolved terminal growth rate (such inputs
\* are reported as an error), so none whose terminal value is infinite or NaN
\* because of the denominator DiscountRate - TerminalGrowthRate.
C20_DegenerateRatesRejected ==
    (Valued /\ calc.result.present)
        => /\ discountSpread(calc.result.Assumptions) = "pos"
           /\ calc.result.TerminalValue \notin {"NaN", "-Inf", "+Inf"}

(***************************************************************************)
(* C21  The tiers of resolve and what a hit leaves in the memo cache        *)
(***************************************************************************)
\* the catalog the call looked in at step 4
PostCatalog == edgar.tickerMapCache

\* C21: resolve returns the first hit of memo cache, static table, catalog,
\* in that order; a ticker held by both the static table and the catalog
\* resolves to the static CIK; and a resolve that succeeds through the static
\* table or the catalog leaves the memo cache as it found it plus exactly the
\* entry (uppercased ticker -> returned CIK).
C21_TiersInOrder ==
    Resolved =>
        /\ InMemo => (last.err = NoError /\ last.cik = PreMemo[LastTicker])
        /\ (~InMemo /\ InStatic) =>
               (last.err = NoError /\ last.cik = commonCIKs[LastTicker])
        /\ (~InMemo /\ ~InStatic /\ LastTicker \in DOMAIN PostCatalog.m) =>
               (last.err = NoError /\ last.cik = PostCatalog.m[LastTicker])
        /\ (~InMemo /\ ~InStatic /\ LastTicker \notin DOMAIN PostCatalog.m) =>
               last.err # NoError
        /\ (~InMemo /\ last.err = NoError) =>
               edgar.cikCache = Put(PreMemo, LastTicker, last.cik)

\* a ticker new to the memo cache that the static table and the catalog map
\* to different CIKs, resolved to the static CIK and memoised
C21_Witness ==
    /\ Resolved /\ ~InMemo /\ InStatic
    /\ LastTicker \in DOMAIN PostCatalog.m
    /\ PostCatalog.m[LastTicker] # commonCIKs[LastTicker]
    /\ last.cik = commonCIKs[LastTicker]
    /\ edgar.cikCache = Put(PreMemo, LastTicker, commonCIKs[LastTicker])

(***************************************************************************)
(* C22  The catalog and its load timestamp                                  *)
(***************************************************************************)
\* C22: the catalog is absent exactly when its load timestamp is unset; a
\* successful refresh replaces the catalog by the table of the response and
\* sets the timestamp to the time of the load; a failed refresh leaves both
\* as they were, so that the catalog still needs a refresh afterwards.
C22_CatalogAndTimestamp ==
    /\ edgar.tickerMapCache.isNil <=> (edgar.tickerMapLoadedAt = ZeroTime)
    /\ (Resolved /\ FetchSucceeded) =>
           /\ edgar.tickerMapCache = MakeMap(BuildTickerMap(last.tickersBody, EmptyMap))
           /\ edgar.tickerMapLoadedAt = last.at
    /\ (Resolved /\ FetchFailed) =>
           /\ edgar.tickerMapCache = PreCatalog
           /\ edgar.tickerMapLoadedAt = last.pre.tickerMapLoadedAt
           /\ needsRefresh(edgar, last.at)

\* a successful refresh that replaced a stale catalog by a different one and
\* stamped it with the time of the call
C22_Witness ==
    /\ Resolved /\ PreStale /\ FetchSucceeded
    /\ edgar.tickerMapCache # PreCatalog
    /\ edgar.tickerMapLoadedAt = last.at
    /\ last.at > last.pre.tickerMapLoadedAt

(***************************************************************************)
(* C23  The memo cache is immutable                                         *)
(***************************************************************************)
\* resolve(t) returned a CIK before this call
AnsweredBefore == LastTicker \in DOMAIN last.preAnswered

\* C23: once resolve(t) has returned c, every later resolve(t) on the same
\* resolver returns c, whatever the catalog loaded since maps t to; and no
\* memo-cache entry is ever removed or changed.
C23_FirstAnswerStands ==
    /\ (Resolved /\ AnsweredBefore) =>
           (last.err = NoError /\ last.cik = last.preAnswered[LastTicker])
    /\ Resolved =>
           \A t \in DOMAIN PreMemo :
               t \in DOMAIN edgar.cikCache /\ edgar.cikCache[t] = PreMemo[t]

\* a ticker answered before, resolved again by a call whose refresh loaded a
\* catalog that maps it to another CIK, or does not hold it
C23_Witness ==
    /\ Resolved /\ AnsweredBefore /\ FetchSucceeded /\ ~InStatic
    /\ \/ LastTicker \notin DOMAIN PostCatalog.m
       \/ PostCatalog.m[LastTicker] # last.preAnswered[LastTicker]
    /\ last.cik = last.preAnswered[LastTicker]

(***************************************************************************)
(* Vocabulary of the concurrency properties                                 *)
(***************************************************************************)
\* the goroutines inside or after a getCIK call
Goroutine(g) == conc.procs[g]

\* no catalog, or the whole table built from one bulk response
WholeCatalogs ==
    {NilMap} \cup {MakeMap(BuildTickerMap(p, EmptyMap)) : p \in Payloads}

(***************************************************************************)
(* C24  Readers and the catalog swap                                        *)
(***************************************************************************)
\* C24: under concurrent resolve calls the catalog variable holds either no
\* catalog or the whole table of one bulk fetch, and the table a lookup reads
\* is a whole one too: the old one or the new one, never a part of one.
C24_CatalogNeverPartial ==
    /\ edgar.tickerMapCache \in WholeCatalogs
    /\ \A g \in GoroutineIds : Goroutine(g).seen \in WholeCatalogs

(***************************************************************************)
(* C25  One bulk fetch per staleness window                                 *)
(***************************************************************************)
\* C25: two concurrent resolve calls that issued a bulk fetch did so for
\* different staleness windows: between two completed refreshes at most one
\* bulk fetch is issued.
C25_OneFetchPerWindow ==
    \A g, h \in GoroutineIds :
        (g # h /\ Goroutine(g).fetches > 0 /\ Goroutine(h).fetches > 0)
            => Goroutine(g).window # Goroutine(h).window

(***************************************************************************)
(* C26  The memo cache under concurrent resolve calls                       *)
(***************************************************************************)
\* C26: under concurrent resolve calls an entry of the memo cache, once
\* written, is never removed and never overwritten with a different CIK.
C26_MemoNeverOverwritten ==
    [][\A t \in DOMAIN edgar.cikCache :
           t \in DOMAIN edgar'.cikCache /\ edgar'.cikCache[t] = edgar.cikCache[t]]_vars

(***************************************************************************)
(* C27  The merge order of one aggregation                                  *)
(***************************************************************************)
\* what GetCompanyData returns for the provider results of calc
InSourceOrder ==
    mergeCompanyData(calc.results.ticker, calc.results.q, calc.results.p,
                     calc.results.f, calc.results.g)

\* the warnings of a list, whatever their order
WarningSet(ws) == {ws[i] : i \in DOMAIN ws}

RatedMetrics == {i \in 1..5 : Metrics(calc.scorecard)[i].Rating # RatingNA}
RatedAs(rating) == {i \in 1..5 : Metrics(calc.scorecard)[i].Rating = rating}

\* C28: the roll-up counts every metric whose rating is favorable, neutral or
\* unfavorable, a P/E rated unfavorable for earnings <= 0 and a D/E or ROE
\* rated unfavorable for equity <= 0 included: the total of the score is the
\* number of rated metrics, and the summary is 'concerning' exactly when more
\* than half of the rated metrics are rated unfavorable.
C28_RatedMetricsCounted ==
    (Scored /\ RatedMetrics # {})
        => /\ calc.scorecard.OverallScore
                = ScoreText(Cardinality(RatedAs(RatingGreen))
                                + Cardinality(RatedAs(RatingYellow)),
                            Cardinality(RatedMetrics), "metrics healthy")
           /\ (calc.scorecard.Summary
                   = "Concerning fundamentals - Avoid or investigate further")
                <=> (2 * Cardinality(RatedAs(RatingRed)) > Cardinality(RatedMetrics))

(***************************************************************************)
(* Vocabulary of the request properties                                     *)
(***************************************************************************)
\* the most recent request named a ticker and was answered by the handler op
Answered(op) == last.op = op /\ last.aggregated

\* the request was answered by a handler that scores / that values
AnsweredScored == Answered("handleStockFundamentals") \/ Answered("handleStockMetrics")
AnsweredValued == Answered("handleStockValuation") \/ Answered("handleStockMetrics")

(***************************************************************************)
(* C29  Where shares outstanding and market cap come from                   *)
(***************************************************************************)
\* C29: shares outstanding are set only by a successful profile call and a
\* quote's market cap only when the quote call and the profile call both
\* succeeded; when the profile call failed, SharesOutstanding is 0, the
\* valuation of that CompanyData fails whatever else was obtained, and the
\* FCF-yield metric is unavailable.
C29_ProfileFeedsSharesAndCap ==
    (AnsweredScored \/ AnsweredValued) =>
        /\ last.cd.SharesOutstanding # 0 => last.profileErr = NoError
        /\ (last.cd.Quote.present /\ last.cd.Quote.MarketCap # Dollars(0, 0))
               => (last.quoteErr = NoError /\ last.profileErr = NoError)
        /\ last.profileErr # NoError =>
               /\ last.cd.SharesOutstanding = 0
               /\ AnsweredValued => (calc.err # NoError /\ ~calc.result.present)
               /\ AnsweredScored =>
                      /\ ~calc.scorecard.FCFYield.Available
                      /\ calc.scorecard.FCFYield.Rating = RatingNA

\* a metrics request whose profile call failed while the quote and the
\* statement were obtained: the valuation failed for want of shares and the
\* FCF yield is unavailable
C29_Witness ==
    /\ Answered("handleStockMetrics")
    /\ last.profileErr # NoError
    /\ last.cd.Quote.present /\ last.cd.LatestFinancials.present
    /\ calc.err = PlainError("shares outstanding not available")
    /\ ~calc.scorecard.FCFYield.Available

(***************************************************************************)
(* C30  Hard failures                                                       *)
(***************************************************************************)
\* C30: for a request that names a ticker, the valuation handler answers 400
\* exactly when CalculateDCF returned an error and 200 otherwise; the
\* fundamentals and the metrics handler answer 200 whatever the providers
\* returned; and the warnings of the metrics response are those of the
\* aggregation, followed by one "Valuation calculation failed" warning exactly
\* when CalculateDCF returned an error.
C30_HardFailureOnlyFromValuation ==
    /\ Answered("handleStockValuation") =>
           last.status = IF calc.err # NoError THEN 400 ELSE 200
    /\ Answered("handleStockFundamentals") => last.status = 200
    /\ Answered("handleStockMetrics") =>
           /\ last.status = 200
           /\ calc.warnings
                = IF calc.err # NoError
                  THEN Append(last.warnings,
                              Warning("Valuation calculation failed", calc.err))
                  ELSE last.warnings

====
